---- MODULE Spec2Model ----
(***************************************************************************)
(* A state-machine model of the fusion scheduler                           *)
(* (torchinductor/scheduler.py) and of the bytecode emitter                *)
(* (torchdynamo/codegen.py).                                               *)
(***************************************************************************)
EXTENDS Integers, Sequences, FiniteSets, TLC

(***************************************************************************)
(* Bounds of the model.                                                    *)
(***************************************************************************)
\* The most read dependencies the whole graph holds.
MaxDeps == 2
\* The most kernels a driver opens over one scheduling.
MaxKernels == 1
\* The most calls made on one emitter.
MaxOps == 4
\* The most realize calls made on the storage handles.
MaxRealize == 4
\* The widest stack rotation asked for.
MaxRot == 5
\* The most values on the stack below the rotated ones.
MaxBelow == 1
\* The longest size list a layout or a view is given.
MaxRank == 4

(***************************************************************************)
(* Generic helpers.                                                        *)
(***************************************************************************)
\* Python's None.
NoneV == "None"

Range(s) == {s[i] : i \in DOMAIN s}

\* Every order in which the elements of a finite set S can be iterated.
Perms(S) ==
  {s \in [1..Cardinality(S) -> S] : \A i, j \in 1..Cardinality(S) : (i # j) => (s[i] # s[j])}

RECURSIVE Repeat(_, _)
Repeat(x, k) == IF k = 0 THEN <<>> ELSE <<x>> \o Repeat(x, k - 1)

(***************************************************************************)
(* The graph handed to the scheduler: computed buffers in the order they   *)
(* were registered, the graph inputs, and what each buffer's store reads   *)
(* and writes.                                                             *)
(***************************************************************************)
\* The computed buffers, in the order of the `nodes` list (registration
\* order: a buffer is registered after every buffer its loader reads).
BufOrder == <<"buf0", "buf1", "buf2">>
Bufs == Range(BufOrder)

\* graph.graph_inputs.keys()
GraphInputs == {"arg0"}
\* A buffer name that is neither a graph input nor a computed buffer.
ForeignNames == {"ext"}
Names == Bufs \cup GraphInputs \cup ForeignNames

\* The values group_fn gives.
Groups == {"g1", "g2"}

\* The index expressions a load or store uses: "i" is the expression
\* layout.make_indexer() gives over the iteration variables (every store
\* uses it), "j" any other expression.
MemoryDep(name, index) == [kind |-> "MemoryDep", name |-> name, index |-> index]
StarDep(name) == [kind |-> "StarDep", name |-> name, index |-> "*"]
AllDeps == {MemoryDep(n, x) : n \in Names, x \in {"i", "j"}}

\* read_writes.writes of the node of buffer b: the one store of its body.
Writes(b) == {MemoryDep(b, "i")}

\* What the body of the k-th buffer may load: the graph input, earlier
\* buffers, buf0 also at another index than it was stored at, and (the
\* first buffer) a name the graph does not hold.
ReadChoices(k) ==
  {MemoryDep(n, "i") : n \in IF k <= 2 THEN GraphInputs ELSE {}}
    \cup {MemoryDep(n, "i") : n \in IF k = 1 THEN ForeignNames ELSE {}}
    \cup {MemoryDep(BufOrder[j], "i") : j \in 1..(k - 1)}
    \cup {MemoryDep(BufOrder[1], "j") : j \in 1..(IF k > 1 THEN 1 ELSE 0)}

ReadEdges == UNION {{<<BufOrder[k], d>> : d \in ReadChoices(k)} : k \in DOMAIN BufOrder}

\* The graphs of the model: at most MaxDeps reads in all.
EdgeSets == {E \in SUBSET ReadEdges : Cardinality(E) <= MaxDeps}
\* group_fn up to the names of its values.
GroupMaps == {G \in [Bufs -> Groups] : G[BufOrder[1]] = "g1"}
MkGraph(E, R, G, O) ==
  [reads |-> [b \in Bufs |-> {e[2] : e \in {x \in E : x[1] = b}}],
   red |-> [b \in Bufs |-> b \in R],
   group |-> G,
   outputs |-> O]
\* For the draining driver: any node a reduction, any set of declared outputs.
DrainGraphs ==
  {MkGraph(E, R, G, O) : E \in EdgeSets, R \in SUBSET Bufs, G \in GroupMaps, O \in SUBSET Bufs}
\* For the draining driver run to its end: any node but the last a
\* reduction, every buffer or only the last an output.
FairGraphs ==
  {MkGraph(E, R, G, O) : E \in EdgeSets,
                         R \in SUBSET {BufOrder[1], BufOrder[2]}, G \in GroupMaps,
                         O \in {Bufs, {BufOrder[Len(BufOrder)]}}}
\* For the free driver: the first node pointwise or a reduction, the others
\* pointwise, every buffer a declared output.
FreeGraphs ==
  {MkGraph(E, R, G, O) : E \in {X \in EdgeSets : \A e \in X : e[2].name \notin ForeignNames},
                         R \in {{}, {BufOrder[1]}}, G \in GroupMaps, O \in {Bufs}}

VARIABLES
  graph,                     \* the graph: reads, reduction flags, groups, outputs
  removed_buffers,           \* graph.removed_buffers
  phase,                     \* "new" before Scheduler.__init__, then "ready"
  nodes,                     \* Scheduler.nodes (names, in order)
  users,                     \* SchedulerNode.users of each buffer's node
  unmet,                     \* SchedulerNode.unmet_dependencies
  available_buffer_names,
  pending_buffer_names,
  fusable_deps,
  runable_nodes,             \* group -> list of nodes (<<>>: key absent)
  runable_reduction_groups,  \* insertion-ordered dict group -> count
  runable_pointwise_groups,
  boxes,                     \* every SchedulerNodeBox made: its value
  name_to_nodes,             \* BlockedNodes.name_to_nodes: name -> boxes
  dep_to_nodes,              \* BlockedNodes.dep_to_nodes: dep -> boxes
  run_count,
  kernels,                   \* len(Scheduler.kernels)
  pg,                        \* the frame of the pop_group generator in flight
  cur,                       \* the node pop_group yielded last, not yet run
  drv,                       \* where the draining driver stands
  itKey,                     \* the key iter_runable_groups yielded last
  ran,                       \* history: the nodes run so far
  handed,                    \* history: how often each node was yielded
  ranInKernel                \* the nodes run since the last kernel was opened

schedVars ==
  <<graph, removed_buffers, phase, nodes, users, unmet, available_buffer_names,
    pending_buffer_names, fusable_deps, runable_nodes, runable_reduction_groups,
    runable_pointwise_groups, boxes, name_to_nodes, dep_to_nodes, run_count, kernels>>
driverVars == <<pg, cur, drv, itKey, ran, handed, ranInKernel>>

\* A caller looping over Scheduler.iter_fixed_point().
VARIABLES
  fp,                        \* the generator: "new", "yielded" (in a round) or "done"
  prior_run_count,           \* the local of iter_fixed_point
  rounds                     \* history: how often iter_fixed_point yielded

fpVars == <<fp, prior_run_count, rounds>>

\* The emitter (PyCodegen) and the code options of its translation context.
VARIABLES
  top_of_stack,              \* PyCodegen.top_of_stack
  uses,                      \* PyCodegen.uses
  graph_outputs,             \* PyCodegen.graph_outputs: ordered dict value -> slot
  output,                    \* PyCodegen._output
  tempvars,                  \* PyCodegen.tempvars: "absent", "None" or a variable
  guards,                    \* tx.guards: the values whose guards were added
  co_varnames,               \* code_options["co_varnames"]
  co_consts,                 \* code_options["co_consts"]
  co_names,                  \* code_options["co_names"]
  ops,                       \* the calls made on the emitter so far
  stack,                     \* what running the emitted code leaves on the stack
  locals,                    \* what running it leaves in the temporaries
  last,                      \* history: the last load-value call and its branch
  lastConst,                 \* history: the last constant load
  loaded                     \* history: the indices each constant was loaded at

cgVars ==
  <<top_of_stack, uses, graph_outputs, output, tempvars, guards, co_varnames, co_consts,
    co_names, ops, stack, locals, last, lastConst, loaded>>

\* The IR model (torchinductor/ir.py) and the graph registry.
VARIABLES
  storage,                   \* StorageBox.data of each storage handle
  buffers,                   \* the buffers registered with the graph, in order
  realized,                  \* history: the realize calls made and what they returned
  fnArg,                     \* the argument of the function applied
  fnRes                      \* what the function returned

irVars == <<storage, buffers, realized, fnArg, fnRes>>

\* The frame of the translation context.
VARIABLES
  f_globals                  \* tx.f_globals: sanitized name -> the object bound

txVars == <<f_globals>>

vars == <<schedVars, driverVars, cgVars, irVars, fpVars, txVars>>

(***************************************************************************)
(* SchedulerNode.                                                          *)
(***************************************************************************)
IsReduction(n) == graph.red[n]
GroupOf(n) == graph.group[n]

\* SchedulerNode.prune_deps: the dependencies not yet available.
PruneDeps(deps, avail) == {dep \in deps : dep.name \notin avail}

\* A consumer in a users list: a SchedulerNode, or the OutputNode of a
\* declared output, whose one unmet dependency is StarDep(name).
NodeUser(n) == [kind |-> "SchedulerNode", name |-> n]
OutputNode(dep) == [kind |-> "OutputNode", name |-> dep.name]
UserUnmet(u) == IF u.kind = "OutputNode" THEN {StarDep(u.name)} ELSE unmet[u.name]
UserIsReduction(u) == IF u.kind = "OutputNode" THEN FALSE ELSE IsReduction(u.name)

\* SchedulerNode.can_remove_buffer
CanRemoveBufferAnyUser(n) ==
  IF IsReduction(n) /\ Len(users[n]) = 1 /\ Cardinality(UserUnmet(users[n][1])) = 1
  THEN LET user == users[n][1]
           dep == CHOOSE d \in UserUnmet(user) : TRUE
       IN dep \in Writes(n)
  ELSE FALSE
CanRemoveBuffer(n) ==
  IF IsReduction(n) /\ Len(users[n]) = 1 /\ Cardinality(UserUnmet(users[n][1])) = 1
  THEN LET user == users[n][1]
           dep == CHOOSE d \in UserUnmet(user) : TRUE
       IN (~UserIsReduction(user)) /\ dep \in Writes(n)
  ELSE FALSE

(***************************************************************************)
(* The insertion-ordered dicts runable_reduction_groups and                *)
(* runable_pointwise_groups: a sequence of [key, val].                     *)
(***************************************************************************)
DictHas(d, k) == \E i \in DOMAIN d : d[i].key = k
DictKeys(d) == [i \in DOMAIN d |-> d[i].key]
\* d[k] += 1 on a defaultdict(int)
DictIncr(d, k) ==
  IF DictHas(d, k)
  THEN [i \in DOMAIN d |-> IF d[i].key = k THEN [d[i] EXCEPT !.val = @ + 1] ELSE d[i]]
  ELSE Append(d, [key |-> k, val |-> 1])
\* d.pop(k, None)
DictPopKept(d, k) == d
DictPop(d, k) == SelectSeq(d, LAMBDA e : e.key # k)
\* d[k], for a key the dict holds
DictGet(d, k) == d[CHOOSE i \in DOMAIN d : d[i].key = k].val

(***************************************************************************)
(* The queues of the scheduler as one record, so that enqueue, pop_name    *)
(* and pop_fusable are functions of it.                                    *)
(***************************************************************************)
Queues ==
  [runable_nodes |-> runable_nodes,
   runable_reduction_groups |-> runable_reduction_groups,
   runable_pointwise_groups |-> runable_pointwise_groups,
   boxes |-> boxes,
   name_to_nodes |-> name_to_nodes,
   dep_to_nodes |-> dep_to_nodes]

EmptyQueues ==
  [runable_nodes |-> [g \in Groups |-> <<>>],
   runable_reduction_groups |-> <<>>,
   runable_pointwise_groups |-> <<>>,
   boxes |-> <<>>,
   name_to_nodes |-> [nm \in Names |-> <<>>],
   dep_to_nodes |-> [d \in AllDeps |-> <<>>]]

SetQueues(q) ==
  /\ runable_nodes' = q.runable_nodes
  /\ runable_reduction_groups' = q.runable_reduction_groups
  /\ runable_pointwise_groups' = q.runable_pointwise_groups
  /\ boxes' = q.boxes
  /\ name_to_nodes' = q.name_to_nodes
  /\ dep_to_nodes' = q.dep_to_nodes

\* BlockedNodes.add: one new box, listed under the name of every unmet
\* dependency (once per dependency) and under every unmet dependency.
BlockedAdd(q, node, deps) ==
  LET box == Len(q.boxes) + 1
  IN [q EXCEPT
        !.boxes = Append(@, node),
        !.name_to_nodes =
          [nm \in Names |->
             q.name_to_nodes[nm] \o Repeat(box, Cardinality({d \in deps : d.name = nm}))],
        !.dep_to_nodes =
          [d \in AllDeps |->
             IF d \in deps THEN Append(q.dep_to_nodes[d], box) ELSE q.dep_to_nodes[d]]]

RECURSIVE PopBoxesKeep(_, _, _)
PopBoxesKeep(bx, list, result) ==
  IF list = <<>> THEN [boxes |-> bx, result |-> result]
  ELSE PopBoxesKeep(bx, Tail(list),
                    IF bx[Head(list)] # NoneV THEN Append(result, bx[Head(list)]) ELSE result)

RECURSIVE PopBoxes(_, _, _)
\* [x.pop() for x in list if x]
PopBoxes(bx, list, result) ==
  IF list = <<>> THEN [boxes |-> bx, result |-> result]
  ELSE LET b == Head(list)
       IN IF bx[b] # NoneV
          THEN PopBoxes([bx EXCEPT ![b] = NoneV], Tail(list), Append(result, bx[b]))
          ELSE PopBoxes(bx, Tail(list), result)

\* BlockedNodes.pop_name
PopName(q, name) ==
  LET r == PopBoxes(q.boxes, q.name_to_nodes[name], <<>>)
  IN [q |-> [q EXCEPT !.boxes = r.boxes, !.name_to_nodes[name] = <<>>],
      result |-> r.result]

\* The test of pop_fusable on one box.
IsFusableAnyDep(node, deps, group, um) == (um[node] \cap deps # {}) /\ GroupOf(node) = group
IsFusable(node, deps, group, um) == (um[node] \ deps = {}) /\ GroupOf(node) = group

RECURSIVE PopFusableBoxes(_, _, _, _, _, _)
\* The inner loop of pop_fusable over the boxes listed under one dep.
PopFusableBoxes(bx, list, deps, group, um, result) ==
  IF list = <<>> THEN [boxes |-> bx, result |-> result]
  ELSE LET b == Head(list)
       IN IF IsFusable(bx[b], deps, group, um)
          THEN PopFusableBoxes([bx EXCEPT ![b] = NoneV], Tail(list), deps, group, um,
                               Append(result, bx[b]))
          ELSE PopFusableBoxes(bx, Tail(list), deps, group, um, result)

RECURSIVE PopFusableDeps(_, _, _, _, _, _)
\* BlockedNodes.pop_fusable, `order` being the order the set deps iterates in.
PopFusableDeps(q, order, deps, group, um, result) ==
  IF order = <<>> THEN [q |-> q, result |-> result]
  ELSE LET dep == Head(order)
           live == SelectSeq(q.dep_to_nodes[dep], LAMBDA x : q.boxes[x] # NoneV)
           r == PopFusableBoxes(q.boxes, live, deps, group, um, result)
       IN PopFusableDeps([q EXCEPT !.dep_to_nodes[dep] = live, !.boxes = r.boxes],
                         Tail(order), deps, group, um, r.result)
PopFusable(q, order, deps, group, um) == PopFusableDeps(q, order, deps, group, um, <<>>)

\* Scheduler.enqueue of one node.
EnqueueAlwaysRunable(q, node, deps) ==
  LET g == GroupOf(node)
      q1 == [q EXCEPT !.runable_nodes[g] = Append(@, node)]
  IN IF IsReduction(node)
     THEN [q1 EXCEPT !.runable_reduction_groups = DictIncr(@, g)]
     ELSE [q1 EXCEPT !.runable_pointwise_groups = DictIncr(@, g)]
Enqueue(q, node, deps) ==
  IF deps # {}
  THEN BlockedAdd(q, node, deps)
  ELSE LET g == GroupOf(node)
           q1 == [q EXCEPT !.runable_nodes[g] = Append(@, node)]
       IN IF IsReduction(node)
          THEN [q1 EXCEPT !.runable_reduction_groups = DictIncr(@, g)]
          ELSE [q1 EXCEPT !.runable_pointwise_groups = DictIncr(@, g)]

RECURSIVE EnqueueAll(_, _, _)
\* Scheduler.enqueue of a list.
EnqueueAll(q, list, um) ==
  IF list = <<>> THEN q
  ELSE EnqueueAll(Enqueue(q, Head(list), um[Head(list)]), Tail(list), um)

(***************************************************************************)
(* Scheduler.compute_users.                                                *)
(***************************************************************************)
\* name_to_users after the loop over graph.graph_outputs.
NoOutputUsers == [nm \in Names |-> <<>>]
OutputUsers == [nm \in Names |-> IF nm \in graph.outputs THEN <<OutputNode(StarDep(nm))>> ELSE <<>>]

RECURSIVE ComputeUsersWalk(_, _, _)
\* The loop over reversed(self.nodes), from the k-th node down.
ComputeUsersWalk(k, name_to_users, us) ==
  IF k = 0 THEN us
  ELSE LET node == BufOrder[k]
           taken == [name_to_users EXCEPT ![node] = NoneV]
           reads == graph.reads[node]
           after ==
             [nm \in Names |->
                IF \E r \in reads : r.name = nm
                THEN taken[nm] \o Repeat(NodeUser(node), Cardinality({r \in reads : r.name = nm}))
                ELSE taken[nm]]
       IN ComputeUsersWalk(k - 1, after, [us EXCEPT ![node] = name_to_users[node]])

ComputeUsers == ComputeUsersWalk(Len(BufOrder), OutputUsers, [b \in Bufs |-> <<>>])

\* updated_nodes: the nodes with a consumer, in order.
UpdatedNodesAll(us) == BufOrder
UpdatedNodes(us) == SelectSeq(BufOrder, LAMBDA b : us[b] # <<>>)

(***************************************************************************)
(* Scheduler.__init__                                                      *)
(***************************************************************************)
Construct ==
  /\ phase = "new"
  /\ LET avail == GraphInputs
         um == [b \in Bufs |-> PruneDeps(graph.reads[b], avail)]
         us == ComputeUsers
         kept == UpdatedNodes(us)
     IN /\ available_buffer_names' = avail
        /\ unmet' = um
        /\ users' = us
        /\ nodes' = kept
        /\ removed_buffers' = removed_buffers \cup (Bufs \ Range(kept))
        /\ SetQueues(EnqueueAll(EmptyQueues, kept, um))
  /\ phase' = "ready"
  /\ UNCHANGED <<graph, pending_buffer_names, fusable_deps, run_count, kernels>>
  /\ UNCHANGED driverVars
  /\ UNCHANGED <<cgVars, irVars, fpVars, txVars>>

\* No pop_group generator is in flight.
NoFrame == [stage |-> "none", group |-> NoneV, list |-> <<>>]

(***************************************************************************)
(* SchedulerNode.run and mark_fusable, Scheduler.kernel, maybe_remove_buffer *)
(***************************************************************************)
\* node.run(...) on the node the driver was handed (fusable_deps is left to
\* the caller, who may go on to node.mark_fusable()).
RunCountAfterRun(c) == c + 1
\* What run does to the two sets of names: the name is added to the pending ones.
NamesAfterRunEager(avail, pending, n) ==
  [available |-> avail \cup {n}, pending |-> pending \cup {n}]
NamesAfterRun(avail, pending, n) ==
  [available |-> avail, pending |-> pending \cup {n}]
RunNode(n) ==
  /\ run_count' = RunCountAfterRun(run_count)
  /\ pending_buffer_names' =
       NamesAfterRun(available_buffer_names, pending_buffer_names, n).pending
  /\ available_buffer_names' =
       NamesAfterRun(available_buffer_names, pending_buffer_names, n).available
  /\ ran' = ran \cup {n}
  /\ ranInKernel' = ranInKernel \cup {n}
  /\ cur' = NoneV
  /\ UNCHANGED <<graph, removed_buffers, phase, nodes, users, unmet,
                 runable_nodes, runable_reduction_groups,
                 runable_pointwise_groups, boxes, name_to_nodes, dep_to_nodes, kernels>>
  /\ UNCHANGED <<pg, itKey, handed>>

\* node.mark_fusable()
MarkNode(n) ==
  /\ fusable_deps' = fusable_deps \cup Writes(n)
  /\ UNCHANGED <<graph, removed_buffers, phase, nodes, users, unmet, available_buffer_names,
                 pending_buffer_names, runable_nodes, runable_reduction_groups,
                 runable_pointwise_groups, boxes, name_to_nodes, dep_to_nodes, run_count,
                 kernels>>
  /\ UNCHANGED <<pg, cur, itKey, ran, handed, ranInKernel>>

\* Scheduler.kernel(kernel)
FusableAfterKernelKept(deps) == deps
FusableAfterKernel(deps) == {}
OpenKernel ==
  /\ fusable_deps' = FusableAfterKernel(fusable_deps)
  /\ kernels' = kernels + 1
  /\ ranInKernel' = {}
  /\ UNCHANGED <<graph, removed_buffers, phase, nodes, users, unmet, available_buffer_names,
                 pending_buffer_names, runable_nodes, runable_reduction_groups,
                 runable_pointwise_groups, boxes, name_to_nodes, dep_to_nodes, run_count>>
  /\ UNCHANGED <<pg, cur, itKey, ran, handed>>

\* Scheduler.maybe_remove_buffer(node)
RemoveBuffer(n) ==
  /\ removed_buffers' = IF CanRemoveBuffer(n) THEN removed_buffers \cup {n} ELSE removed_buffers
  /\ UNCHANGED <<graph, phase, nodes, users, unmet, available_buffer_names,
                 pending_buffer_names, fusable_deps, runable_nodes, runable_reduction_groups,
                 runable_pointwise_groups, boxes, name_to_nodes, dep_to_nodes, run_count,
                 kernels>>
  /\ UNCHANGED <<pg, cur, itKey, ran, handed, ranInKernel>>

(***************************************************************************)
(* Scheduler.barrier                                                       *)
(***************************************************************************)
RECURSIVE PruneAll(_, _, _)
\* node.prune_deps() on every node of a list.
PruneAll(um, list, avail) ==
  IF list = <<>> THEN um
  ELSE PruneAll([um EXCEPT ![Head(list)] = PruneDeps(@, avail)], Tail(list), avail)

RECURSIVE BarrierLoop(_, _, _, _, _)
\* The loop over pending_buffer_names, in the order the set iterates.
BarrierLoop(q, order, um, avail, nodes_to_add) ==
  IF order = <<>> THEN [q |-> q, unmet |-> um, nodes_to_add |-> nodes_to_add]
  ELSE LET r == PopName(q, Head(order))
       IN BarrierLoop(r.q, Tail(order), PruneAll(um, r.result, avail), avail,
                      nodes_to_add \o r.result)

AvailableAfterBarrierNone(avail, pending) == avail
AvailableAfterBarrier(avail, pending) == avail \cup pending

DoBarrier ==
  /\ \E order \in Perms(pending_buffer_names) :
       LET avail == AvailableAfterBarrier(available_buffer_names, pending_buffer_names)
           r == BarrierLoop(Queues, order, unmet, avail, <<>>)
       IN /\ available_buffer_names' = avail
          /\ unmet' = r.unmet
          /\ SetQueues(EnqueueAll(r.q, r.nodes_to_add, r.unmet))
  /\ pending_buffer_names' = {}
  /\ UNCHANGED <<graph, removed_buffers, phase, nodes, users, fusable_deps, run_count, kernels>>
  /\ UNCHANGED <<pg, cur, itKey, ran, handed, ranInKernel>>

(***************************************************************************)
(* Scheduler.pop_group, a generator: one step is one next() on it, up to   *)
(* its next yield or its end.                                              *)
(***************************************************************************)
\* The generator yields node n and keeps the rest of the list in its frame.
YieldNode(stage, group, list) ==
  /\ cur' = Head(list)
  /\ handed' = [handed EXCEPT ![Head(list)] = @ + 1]
  /\ pg' = [stage |-> stage, group |-> group, list |-> Tail(list)]

EndPopGroup ==
  /\ cur' = NoneV
  /\ handed' = handed
  /\ pg' = NoFrame

PopGroupStep(group) ==
  /\ cur = NoneV
  /\ LET f == IF pg.stage = "none" THEN [stage |-> "pool", group |-> group, list |-> <<>>] ELSE pg
         g == f.group
     IN IF f.list # <<>>
        THEN \* inside a `yield from`
             /\ YieldNode(f.stage, g, f.list)
             /\ UNCHANGED <<runable_nodes, runable_reduction_groups, runable_pointwise_groups,
                            boxes, name_to_nodes, dep_to_nodes>>
        ELSE IF f.stage = "pool" /\ runable_nodes[g] # <<>>
        THEN \* while group in self.runable_nodes
             /\ runable_reduction_groups' = DictPop(runable_reduction_groups, g)
             /\ runable_pointwise_groups' = DictPop(runable_pointwise_groups, g)
             /\ runable_nodes' = [runable_nodes EXCEPT ![g] = <<>>]
             /\ YieldNode("pool", g, runable_nodes[g])
             /\ UNCHANGED <<boxes, name_to_nodes, dep_to_nodes>>
        ELSE IF f.stage = "fus" \/ fusable_deps # {}
        THEN \* while fusable: fusable = pop_fusable(...)
             \E order \in Perms(fusable_deps) :
               LET r == PopFusable(Queues, order, fusable_deps, g, unmet)
               IN /\ SetQueues(r.q)
                  /\ IF r.result # <<>> THEN YieldNode("fus", g, r.result) ELSE EndPopGroup
        ELSE /\ EndPopGroup
             /\ UNCHANGED <<runable_nodes, runable_reduction_groups, runable_pointwise_groups,
                            boxes, name_to_nodes, dep_to_nodes>>
  /\ UNCHANGED <<graph, removed_buffers, phase, nodes, users, unmet, available_buffer_names,
                 pending_buffer_names, fusable_deps, run_count, kernels>>
  /\ UNCHANGED <<itKey, ran, ranInKernel>>

(***************************************************************************)
(* Scheduler.iter_runable_groups, a generator: one step is one next().     *)
(***************************************************************************)
\* The key the loop yields.
IterKeyPointwiseFirst ==
  IF runable_pointwise_groups # <<>>
  THEN DictKeys(runable_pointwise_groups)[1]
  ELSE DictKeys(runable_reduction_groups)[1]
IterKey ==
  IF runable_reduction_groups # <<>>
  THEN DictKeys(runable_reduction_groups)[1]
  ELSE DictKeys(runable_pointwise_groups)[1]

\* The two assertions after the loop.
IterAssertions ==
  /\ \A g \in Groups : runable_nodes[g] = <<>>
  /\ Len(nodes) = run_count

(***************************************************************************)
(* The free driver: after construction it calls, in any order, pop_group   *)
(* on any group (draining one generator before it starts the next), run on *)
(* each node it is handed, mark_fusable on nodes it has run in the current *)
(* kernel, kernel, barrier and maybe_remove_buffer.                        *)
(***************************************************************************)
PopGroup ==
  /\ phase = "ready"
  /\ \E g \in Groups : PopGroupStep(g)
  /\ UNCHANGED drv
  /\ UNCHANGED <<cgVars, irVars, fpVars, txVars>>

Run ==
  /\ phase = "ready"
  /\ cur # NoneV
  /\ RunNode(cur)
  /\ UNCHANGED <<fusable_deps, drv>>
  /\ UNCHANGED <<cgVars, irVars, fpVars, txVars>>

MarkFusable ==
  /\ phase = "ready"
  /\ cur = NoneV
  /\ \E n \in ranInKernel : MarkNode(n)
  /\ UNCHANGED drv
  /\ UNCHANGED <<cgVars, irVars, fpVars, txVars>>

Kernel ==
  /\ phase = "ready"
  /\ cur = NoneV
  /\ kernels < MaxKernels
  /\ OpenKernel
  /\ UNCHANGED drv
  /\ UNCHANGED <<cgVars, irVars, fpVars, txVars>>

Barrier ==
  /\ phase = "ready"
  /\ cur = NoneV
  /\ DoBarrier
  /\ UNCHANGED drv
  /\ UNCHANGED <<cgVars, irVars, fpVars, txVars>>

(***************************************************************************)
(* Scheduler.iter_fixed_point, a generator: one step is one next(). The    *)
(* caller runs a round after each yield: pop_group on any group, run on    *)
(* each node handed out, mark_fusable, barrier.                            *)
(***************************************************************************)
\* while prior_run_count != self.run_count
FixedPointContinuesAlways(prior, count) == TRUE
FixedPointContinues(prior, count) == prior # count

IterFixedPoint ==
  /\ phase = "ready"
  /\ fp # "done"
  /\ cur = NoneV
  /\ pg = NoFrame
  /\ IF FixedPointContinues(prior_run_count, run_count)
     THEN /\ prior_run_count' = run_count
          /\ fp' = "yielded"
          /\ rounds' = rounds + 1
     ELSE /\ fp' = "done"
          /\ UNCHANGED <<prior_run_count, rounds>>
  /\ UNCHANGED <<schedVars, driverVars, cgVars, irVars, txVars>>

FixedPopGroup == fp = "yielded" /\ PopGroup
FixedRun == fp = "yielded" /\ Run
FixedMarkFusable == fp = "yielded" /\ MarkFusable
FixedBarrier == fp = "yielded" /\ Barrier

\* No caller loops over iter_fixed_point.
FpIdle ==
  /\ fp = "new"
  /\ prior_run_count = -1
  /\ rounds = 0

(***************************************************************************)
(* The draining driver:                                                    *)
(*   for group in iter_runable_groups():                                   *)
(*       with kernel(...):                                                 *)
(*           for node in pop_group(group):                                 *)
(*               node.run(...); [node.mark_fusable()]                      *)
(*       barrier()                                                         *)
(* with maybe_remove_buffer called on any node at any point.               *)
(***************************************************************************)
DrainIter ==
  /\ phase = "ready"
  /\ drv = "top"
  /\ IF runable_reduction_groups # <<>> \/ runable_pointwise_groups # <<>>
     THEN /\ itKey' = IterKey
          /\ drv' = "body"
     ELSE /\ itKey' = NoneV
          /\ drv' = IF IterAssertions THEN "done" ELSE "failed"
  /\ UNCHANGED schedVars
  /\ UNCHANGED <<pg, cur, ran, handed, ranInKernel>>
  /\ UNCHANGED <<cgVars, irVars, fpVars, txVars>>

DrainKernel ==
  /\ drv = "body"
  /\ OpenKernel
  /\ drv' = "pop"
  /\ UNCHANGED <<cgVars, irVars, fpVars, txVars>>

DrainPop ==
  /\ drv = "pop"
  /\ PopGroupStep(itKey)
  /\ drv' = IF pg' = NoFrame /\ cur' = NoneV THEN "barrier" ELSE "pop"
  /\ UNCHANGED <<cgVars, irVars, fpVars, txVars>>

\* The loop body without a kernel: pop_group right away.
DrainPopNoKernel ==
  /\ drv = "body"
  /\ PopGroupStep(itKey)
  /\ drv' = IF pg' = NoFrame /\ cur' = NoneV THEN "barrier" ELSE "pop"
  /\ UNCHANGED <<cgVars, irVars, fpVars, txVars>>

\* node.run(...)
DrainRun ==
  /\ drv = "pop"
  /\ cur # NoneV
  /\ RunNode(cur)
  /\ UNCHANGED <<fusable_deps, drv>>
  /\ UNCHANGED <<cgVars, irVars, fpVars, txVars>>

\* node.run(...); node.mark_fusable()
DrainRunFuse ==
  /\ drv = "pop"
  /\ cur # NoneV
  /\ RunNode(cur)
  /\ fusable_deps' = fusable_deps \cup Writes(cur)
  /\ UNCHANGED drv
  /\ UNCHANGED <<cgVars, irVars, fpVars, txVars>>

DrainBarrier ==
  /\ drv = "barrier"
  /\ DoBarrier
  /\ drv' = "top"
  /\ UNCHANGED <<cgVars, irVars, fpVars, txVars>>

\* maybe_remove_buffer on any node, at any point of the loop.
DrainRemove ==
  /\ drv \in {"body", "pop", "barrier"}
  /\ \E n \in Range(nodes) : RemoveBuffer(n)
  /\ UNCHANGED drv
  /\ UNCHANGED <<cgVars, irVars, fpVars, txVars>>

(***************************************************************************)
(* The bytecode emitter, PyCodegen (torchdynamo/codegen.py).               *)
(***************************************************************************)
\* An instruction is (opname, arg, argval); an arg is None, a number or, in
\* what create_load_attr builds, a tuple of names.
NoArg == [kind |-> "None", int |-> 0, names |-> <<>>]
IntArg(i) == [kind |-> "int", int |-> i, names |-> <<>>]
TupleArg(t) == [kind |-> "tuple", int |-> 0, names |-> t]
CreateInstruction(name, arg, argval) == [opname |-> name, arg |-> arg, argval |-> argval]

\* list.index / tuple.index, counted from 0.
IndexOf(seq, x) == (CHOOSE i \in DOMAIN seq : seq[i] = x /\ \A j \in 1..(i - 1) : seq[j] # x) - 1

\* Python constants: runtime type, value and whether the value is a NaN.
PyInt(n) == [type |-> "int", num |-> n, nan |-> FALSE, repr |-> ToString(n)]
PyTrue == [type |-> "bool", num |-> 1, nan |-> FALSE, repr |-> "True"]
PyFloatZero == [type |-> "float", num |-> 0, nan |-> FALSE, repr |-> "0.0"]
PyFloatNegZero == [type |-> "float", num |-> 0, nan |-> FALSE, repr |-> "-0.0"]
PyNaN == [type |-> "float", num |-> 0, nan |-> TRUE, repr |-> "nan"]
\* self.root, a torch.nn.Module.
PyRoot == [type |-> "Module", num |-> 0, nan |-> FALSE, repr |-> "root"]
PyConsts == {PyInt(0), PyInt(1), PyTrue, PyFloatZero, PyFloatNegZero, PyNaN, PyRoot}

\* v == value on two constants of one type: a NaN equals nothing.
PyEq(v, value) == ~v.nan /\ ~value.nan /\ v.num = value.num

\* is_safe_constant
IsSafeConstant(value) == value.type \in {"int", "float", "bool", "str", "NoneType", "code"}

\* The test of the scan in _create_load_const.
SameConst(v, value) == v.type = value.type /\ PyEq(v, value)

\* _create_load_const: the table after the load, the index used (from 0)
\* and the instruction.
CreateLoadConstUnchecked(consts, value) ==
  LET hits == {i \in DOMAIN consts : SameConst(consts[i], value)}
      index == IF hits = {} THEN Len(consts)
               ELSE (CHOOSE i \in hits : \A j \in hits : i <= j) - 1
  IN [co_consts |-> IF hits = {} THEN Append(consts, value) ELSE consts,
      index |-> index,
      inst |-> CreateInstruction("LOAD_CONST", IntArg(index), value.repr)]

\* tx.cell_and_freevars()
CellAndFreevars == <<"cell0">>

\* create_load and create_store (their assertion holds: CanLoad).
CanLoad(varnames, name) == name \in Range(CellAndFreevars) \cup Range(varnames)
CreateLoad(varnames, name) ==
  IF name \in Range(CellAndFreevars)
  THEN CreateInstruction("LOAD_DEREF", IntArg(IndexOf(CellAndFreevars, name)), name)
  ELSE CreateInstruction("LOAD_FAST", IntArg(IndexOf(varnames, name)), name)
CreateStore(varnames, name) ==
  IF name \in Range(CellAndFreevars)
  THEN CreateInstruction("STORE_DEREF", IntArg(IndexOf(CellAndFreevars, name)), name)
  ELSE CreateInstruction("STORE_FAST", IntArg(IndexOf(varnames, name)), name)

\* create_load_attr: the name table after it, and the instruction.
CreateLoadAttr(names, name) ==
  LET after == IF name \in Range(names) THEN names ELSE Append(names, name)
  IN [co_names |-> after, inst |-> CreateInstruction("LOAD_ATTR", TupleArg(after), name)]

RECURSIVE CreateLoadAttrs(_, _, _)
\* create_load_attr on each part, one after the other.
CreateLoadAttrs(names, parts, insts) ==
  IF parts = <<>> THEN [co_names |-> names, insts |-> insts]
  ELSE LET r == CreateLoadAttr(names, Head(parts))
       IN CreateLoadAttrs(r.co_names, Tail(parts), Append(insts, r.inst))

\* The symbolic values (VariableTracker) the emitter is asked to load, by
\* the branch of __call__ that serves them, and a Source.
Values == {"k", "t", "t2", "m", "g", "s", "bad"}
\* The values that are a TensorVariable.
Tensors == {"t", "t2"}
Sources == {"src"}
\* value.source is not None
HasSource(v) == v = "s"
\* value.is_python_constant() and value.as_python_constant()
IsPythonConstant(v) == v = "k"
AsPythonConstant(v) == PyInt(1)
IsTensorVariable(v) == v \in Tensors
IsNNModuleVariable(v) == v = "m"
\* value.module_key.split(".")
ModuleKeyParts(v) == <<"self", "fc">>
\* value.reconstruct(codegen) raises NotImplementedError
ReconstructRaises(v) == v = "bad"
\* The instructions value.reconstruct(codegen) and source.reconstruct(codegen)
\* give: they leave the value on top of the stack.
Reconstruct(v) == <<CreateInstruction("RECONSTRUCT", NoArg, v)>>
\* self.graph_output_var
GraphOutputVar == "graph_out"
\* tx.new_var(): a fresh local variable, added to co_varnames.
NewVar(varnames) == "tmp_" \o ToString(Len(varnames))

\* The stack the emitted code leaves, as a list of the values on it.
Opaque == "?"
Top(st) == IF st = <<>> THEN Opaque ELSE st[Len(st)]
Push(st, x) == Append(st, x)
Pop(st) == IF st = <<>> THEN st ELSE SubSeq(st, 1, Len(st) - 1)

NoCall == [op |-> "none", value |-> NoneV, branch |-> NoneV]
NoConstLoad == [op |-> "none", value |-> PyInt(0), index |-> 0, before |-> <<>>]

\* The history of a constant load.
ConstLoaded(value, r, before) ==
  /\ lastConst' = [op |-> "load", value |-> value, index |-> r.index, before |-> before]
  /\ loaded' = [loaded EXCEPT ![value] = @ \cup {r.index}]

\* What a branch of __call__ leaves: the fields it may change, whether it
\* raised, and the constant loads it made.
CallBase ==
  [output |-> output, co_consts |-> co_consts, co_names |-> co_names,
   graph_outputs |-> graph_outputs, uses |-> uses, tempvars |-> tempvars,
   co_varnames |-> co_varnames, locals |-> locals, stack |-> stack,
   raised |-> FALSE, constLoads |-> <<>>]

\* value.source is not None: output.extend(value.source.reconstruct(self))
SourceBranch(v) ==
  [CallBase EXCEPT !.output = @ \o Reconstruct(v), !.stack = Push(@, v)]

\* a safe python constant: output.append(self.create_load_const(...))
ConstBranch(v) ==
  LET value == AsPythonConstant(v)
      r == CreateLoadConstUnchecked(co_consts, value)
  IN [CallBase EXCEPT !.output = Append(@, r.inst), !.co_consts = r.co_consts,
                      !.stack = Push(@, v),
                      !.constLoads = <<[value |-> value, r |-> r]>>]

\* The slot a value not yet in graph_outputs gets: len(graph_outputs).
NextSlotZero(outs) == 0
NextSlot(outs) == Len(outs)

\* a TensorVariable: its slot of graph_outputs, then graph_out[slot]
TensorBranch(v) ==
  LET outs == IF DictHas(graph_outputs, v) THEN graph_outputs
              ELSE Append(graph_outputs, [key |-> v, val |-> NextSlot(graph_outputs)])
      slot == PyInt(DictGet(outs, v))
      r == CreateLoadConstUnchecked(co_consts, slot)
  IN IF ~CanLoad(co_varnames, GraphOutputVar)
     THEN [CallBase EXCEPT !.graph_outputs = outs, !.raised = TRUE]
     ELSE [CallBase EXCEPT
             !.graph_outputs = outs,
             !.output = @ \o <<CreateLoad(co_varnames, GraphOutputVar), r.inst,
                               CreateInstruction("BINARY_SUBSCR", NoArg, NoneV)>>,
             !.co_consts = r.co_consts,
             !.stack = Push(@, v),
             !.constLoads = <<[value |-> slot, r |-> r]>>]

\* an NNModuleVariable: a local or the root module, then one LOAD_ATTR a part
ModuleBranch(v) ==
  LET parts == ModuleKeyParts(v)
      local == parts[1] \in Range(co_varnames)
      r == CreateLoadConstUnchecked(co_consts, PyRoot)
      ra == CreateLoadAttrs(co_names, IF local THEN Tail(parts) ELSE parts, <<>>)
  IN [CallBase EXCEPT
        !.output = @ \o <<IF local THEN CreateLoad(co_varnames, parts[1]) ELSE r.inst>>
                     \o ra.insts,
        !.co_consts = IF local THEN @ ELSE r.co_consts,
        !.co_names = ra.co_names,
        !.stack = Push(@, v),
        !.constLoads = IF local THEN <<>> ELSE <<[value |-> PyRoot, r |-> r]>>]

\* the generic case: uses, value.reconstruct, and add_cache on a value
\* marked for caching
GenericBranch(v, allow_cache) ==
  LET u == [uses EXCEPT ![v] = @ + 1]
      var == NewVar(co_varnames)
      names == Append(co_varnames, var)
  IN IF ReconstructRaises(v)
     THEN [CallBase EXCEPT !.uses = u, !.raised = TRUE]
     ELSE IF allow_cache /\ tempvars[v] # "absent"
     THEN [CallBase EXCEPT
             !.uses = u,
             !.output = @ \o Reconstruct(v)
                          \o <<CreateInstruction("DUP_TOP", NoArg, NoneV),
                               CreateStore(names, var)>>,
             !.tempvars = [@ EXCEPT ![v] = var],
             !.co_varnames = names,
             !.locals = {l \in @ : l[1] # var} \cup {<<var, v>>},
             !.stack = Push(@, v)]
     ELSE [CallBase EXCEPT !.uses = u, !.output = @ \o Reconstruct(v),
                           !.stack = Push(@, v)]

\* The value a temporary holds when the emitted code has run.
LocalValue(var) == IF \E l \in locals : l[1] = var
                   THEN (CHOOSE l \in locals : l[1] = var)[2] ELSE Opaque

\* top_of_stack after the branch that reuses a temporary.
TosAfterTempvar(tos, v) == tos

\* PyCodegen.__call__(value, allow_cache) on a VariableTracker.
Call(v, allow_cache) ==
  /\ ops < MaxOps
  /\ ops' = ops + 1
  /\ IF top_of_stack = v
     THEN /\ output' = Append(output, CreateInstruction("DUP_TOP", NoArg, NoneV))
          /\ stack' = Push(stack, Top(stack))
          /\ last' = [op |-> "call", value |-> v, branch |-> "dup"]
          /\ UNCHANGED <<top_of_stack, uses, graph_outputs, tempvars, guards, co_varnames,
                         co_consts, co_names, locals, lastConst, loaded>>
     ELSE IF allow_cache /\ tempvars[v] \notin {"absent", NoneV}
     THEN /\ output' = Append(output, CreateLoad(co_varnames, tempvars[v]))
          /\ stack' = Push(stack, LocalValue(tempvars[v]))
          /\ top_of_stack' = TosAfterTempvar(top_of_stack, v)
          /\ last' = [op |-> "call", value |-> v, branch |-> "tempvar"]
          /\ UNCHANGED <<uses, graph_outputs, tempvars, guards, co_varnames,
                         co_consts, co_names, locals, lastConst, loaded>>
     ELSE LET r == IF HasSource(v) THEN SourceBranch(v)
                   ELSE IF IsPythonConstant(v) /\ IsSafeConstant(AsPythonConstant(v))
                   THEN ConstBranch(v)
                   ELSE IF IsTensorVariable(v) THEN TensorBranch(v)
                   ELSE IF IsNNModuleVariable(v) THEN ModuleBranch(v)
                   ELSE GenericBranch(v, allow_cache)
          IN /\ guards' = guards \cup {v}
             /\ output' = r.output
             /\ co_consts' = r.co_consts
             /\ co_names' = r.co_names
             /\ graph_outputs' = r.graph_outputs
             /\ uses' = r.uses
             /\ tempvars' = r.tempvars
             /\ co_varnames' = r.co_varnames
             /\ locals' = r.locals
             /\ stack' = r.stack
             /\ top_of_stack' = IF r.raised THEN top_of_stack ELSE v
             /\ last' = [op |-> "call", value |-> v,
                         branch |-> IF r.raised THEN "raised" ELSE "emit"]
             /\ IF r.constLoads = <<>>
                THEN UNCHANGED <<lastConst, loaded>>
                ELSE ConstLoaded(r.constLoads[1].value, r.constLoads[1].r, co_consts)
  /\ UNCHANGED <<fpVars, txVars, schedVars, driverVars, irVars>>

\* PyCodegen.__call__(value) on a Source: its reconstruction, then clear_tos.
CallSource(src) ==
  /\ ops < MaxOps
  /\ ops' = ops + 1
  /\ output' = output \o Reconstruct(src)
  /\ top_of_stack' = NoneV
  /\ stack' = Push(stack, src)
  /\ last' = [op |-> "call", value |-> src, branch |-> "source"]
  /\ UNCHANGED <<uses, graph_outputs, tempvars, guards, co_varnames, co_consts, co_names,
                 locals, lastConst, loaded>>
  /\ UNCHANGED <<fpVars, txVars, schedVars, driverVars, irVars>>

\* The instructions a caller appends itself, and what each does to the stack.
RawPop == CreateInstruction("POP_TOP", NoArg, NoneV)
RawLoad == CreateInstruction("LOAD_GLOBAL", IntArg(0), "f")
RawInsts == {RawPop, RawLoad}
RawLists == {<<>>, <<RawLoad, RawLoad>>}
StackAfterRaw(st, inst) == IF inst.opname = "POP_TOP" THEN Pop(st) ELSE Push(st, Opaque)
RECURSIVE StackAfterRawList(_, _)
StackAfterRawList(st, insts) ==
  IF insts = <<>> THEN st ELSE StackAfterRawList(StackAfterRaw(st, Head(insts)), Tail(insts))

\* clear_tos
ClearTos(tos) == NoneV

\* append_output(inst)
AppendOutput(inst) ==
  /\ ops < MaxOps
  /\ ops' = ops + 1
  /\ output' = Append(output, inst)
  /\ top_of_stack' = ClearTos(top_of_stack)
  /\ stack' = StackAfterRaw(stack, inst)
  /\ last' = [op |-> "append_output", value |-> NoneV, branch |-> NoneV]
  /\ UNCHANGED <<uses, graph_outputs, tempvars, guards, co_varnames, co_consts, co_names,
                 locals, lastConst, loaded>>
  /\ UNCHANGED <<fpVars, txVars, schedVars, driverVars, irVars>>

\* extend_output(insts)
ExtendOutput(insts) ==
  /\ ops < MaxOps
  /\ ops' = ops + 1
  /\ output' = output \o insts
  /\ top_of_stack' = ClearTos(top_of_stack)
  /\ stack' = StackAfterRawList(stack, insts)
  /\ last' = [op |-> "extend_output", value |-> NoneV, branch |-> NoneV]
  /\ UNCHANGED <<uses, graph_outputs, tempvars, guards, co_varnames, co_consts, co_names,
                 locals, lastConst, loaded>>
  /\ UNCHANGED <<fpVars, txVars, schedVars, driverVars, irVars>>

\* create_load_const(value), called by itself.
CreateLoadConst(value) ==
  /\ ops < MaxOps
  /\ ops' = ops + 1
  /\ IF IsSafeConstant(value)
     THEN LET r == CreateLoadConstUnchecked(co_consts, value)
          IN /\ co_consts' = r.co_consts
             /\ ConstLoaded(value, r, co_consts)
     ELSE \* assert is_safe_constant(value)
          /\ lastConst' = [op |-> "raised", value |-> value, index |-> 0, before |-> co_consts]
          /\ UNCHANGED <<co_consts, loaded>>
  /\ UNCHANGED <<top_of_stack, uses, graph_outputs, output, tempvars, guards, co_varnames,
                 co_names, stack, locals, last>>
  /\ UNCHANGED <<fpVars, txVars, schedVars, driverVars, irVars>>

\* _create_load_const(value) (also create_load_output), called by itself.
CreateLoadOutput(value) ==
  /\ ops < MaxOps
  /\ ops' = ops + 1
  /\ LET r == CreateLoadConstUnchecked(co_consts, value)
     IN /\ co_consts' = r.co_consts
        /\ ConstLoaded(value, r, co_consts)
  /\ UNCHANGED <<top_of_stack, uses, graph_outputs, output, tempvars, guards, co_varnames,
                 co_names, stack, locals, last>>
  /\ UNCHANGED <<fpVars, txVars, schedVars, driverVars, irVars>>

(***************************************************************************)
(* PyCodegen.rot_n, and what the instructions it gives do to the stack of  *)
(* the virtual machine that runs them.                                     *)
(***************************************************************************)
\* rot_n_helper(n), as a constant: a new function object at every call,
\* equal to no entry the table already holds.
PyRotHelper(n) ==
  [type |-> "function", num |-> n, nan |-> TRUE, repr |-> "rot_" \o ToString(n) \o "_helper"]

\* The instructions of the fallback of rot_n, the helper being constant
\* `index` of the table.
RotNFallbackNoSwap(n, index) ==
  <<CreateInstruction("BUILD_TUPLE", IntArg(n), NoneV),
    CreateInstruction("LOAD_CONST", IntArg(index), PyRotHelper(n).repr),
    CreateInstruction("CALL_FUNCTION_EX", IntArg(0), NoneV),
    CreateInstruction("UNPACK_SEQUENCE", IntArg(n), NoneV)>>
RotNFallback(n, index) ==
  <<CreateInstruction("BUILD_TUPLE", IntArg(n), NoneV),
    CreateInstruction("LOAD_CONST", IntArg(index), PyRotHelper(n).repr),
    CreateInstruction("ROT_TWO", NoArg, NoneV),
    CreateInstruction("CALL_FUNCTION_EX", IntArg(0), NoneV),
    CreateInstruction("UNPACK_SEQUENCE", IntArg(n), NoneV)>>

\* rot_n(n) on a host that is (or is not) at least 3.8: the table after it
\* and the instructions.
RotN(consts, n, atLeast38) ==
  IF n = 0 \/ n = 1 THEN [co_consts |-> consts, insts |-> <<>>]
  ELSE IF n = 2 THEN [co_consts |-> consts, insts |-> <<CreateInstruction("ROT_TWO", NoArg, NoneV)>>]
  ELSE IF n = 3
  THEN [co_consts |-> consts, insts |-> <<CreateInstruction("ROT_THREE", NoArg, NoneV)>>]
  ELSE IF n = 4 /\ atLeast38
  THEN [co_consts |-> consts, insts |-> <<CreateInstruction("ROT_FOUR", NoArg, NoneV)>>]
  ELSE LET r == CreateLoadConstUnchecked(consts, PyRotHelper(n))
       IN [co_consts |-> r.co_consts, insts |-> RotNFallback(n, r.index)]

\* What the stack of the virtual machine holds: a value, a tuple of such,
\* or a constant of the table.
StackValue(x) == [kind |-> "value", v |-> x, elems |-> <<>>]
StackTuple(elems) == [kind |-> "tuple", v |-> NoneV, elems |-> elems]
StackConst(c) == [kind |-> "const", v |-> c.repr, elems |-> <<>>]
\* The stack after an instruction that cannot run.
StackError == <<[kind |-> "error", v |-> NoneV, elems |-> <<>>]>>

Reverse(seq) == [i \in 1..Len(seq) |-> seq[Len(seq) + 1 - i]]

\* The native rotate of the top n: the top goes to depth n, the others move
\* one up.
NativeRot(st, n) ==
  LET L == Len(st)
  IN SubSeq(st, 1, L - n) \o <<st[L]>> \o SubSeq(st, L - n + 1, L - 1)

\* What rot_n_helper(n) returns on its arguments: the arguments rotated by
\* one position, in the order UNPACK_SEQUENCE puts back on the stack.
RotHelper(args) ==
  LET n == Len(args)
  IN Reverse(<<args[n]>> \o SubSeq(args, 1, n - 1))

\* One instruction of the virtual machine on a stack.
Exec(st, inst, consts) ==
  LET L == Len(st)
      n == inst.arg.int
  IN IF st = StackError THEN StackError
     ELSE IF inst.opname = "BUILD_TUPLE"
     THEN IF L < n THEN StackError
          ELSE Append(SubSeq(st, 1, L - n), StackTuple(SubSeq(st, L - n + 1, L)))
     ELSE IF inst.opname = "LOAD_CONST"
     THEN Append(st, StackConst(consts[n + 1]))
     ELSE IF inst.opname \in {"ROT_TWO", "ROT_THREE", "ROT_FOUR"}
     THEN LET k == IF inst.opname = "ROT_TWO" THEN 2
                   ELSE IF inst.opname = "ROT_THREE" THEN 3 ELSE 4
          IN IF L < k THEN StackError ELSE NativeRot(st, k)
     ELSE IF inst.opname = "CALL_FUNCTION_EX"
     THEN \* TOS: the arguments, below it the callable
          IF L < 2 THEN StackError
          ELSE LET args == st[L]
                   fn == st[L - 1]
               IN IF /\ args.kind = "tuple"
                     /\ fn.kind = "const"
                     /\ fn.v = PyRotHelper(Len(args.elems)).repr
                  THEN Append(SubSeq(st, 1, L - 2), StackTuple(RotHelper(args.elems)))
                  ELSE StackError
     ELSE IF inst.opname = "UNPACK_SEQUENCE"
     THEN IF L < 1 THEN StackError
          ELSE IF st[L].kind = "tuple" /\ Len(st[L].elems) = n
          THEN SubSeq(st, 1, L - 1) \o Reverse(st[L].elems)
          ELSE StackError
     ELSE StackError

RECURSIVE ExecAll(_, _, _)
ExecAll(st, insts, consts) ==
  IF insts = <<>> THEN st ELSE ExecAll(Exec(st, Head(insts), consts), Tail(insts), consts)

\* rot_n(n) called on the emitter, and its instructions run on a stack.
RotNCall ==
  /\ ~fnRes.done
  /\ LET r == RotN(co_consts, fnArg.n, fnArg.atLeast38)
     IN /\ co_consts' = r.co_consts
        /\ fnRes' = [done |-> TRUE, insts |-> r.insts, stack |-> ExecAll(fnArg.stack, r.insts, r.co_consts)]
  /\ UNCHANGED <<top_of_stack, uses, graph_outputs, output, tempvars, guards, co_varnames,
                 co_names, ops, stack, locals, last, lastConst, loaded>>
  /\ UNCHANGED <<storage, buffers, realized, fnArg>>
  /\ UNCHANGED <<fpVars, txVars, schedVars, driverVars>>

(***************************************************************************)
(* PyCodegen.setup_globally_cached and create_load_global.                 *)
(***************************************************************************)
\* A name is the sequence of its characters; the characters re.sub keeps.
WordChars == {"a", "b", "f", "_"}
IsWordChar(c) == c \in WordChars

RECURSIVE SanitizeFrom(_, _)
\* re.sub(r"[^a-zA-Z0-9_]+", "_", name): each run of other characters
\* becomes one underscore.
SanitizeFrom(name, inRun) ==
  IF name = <<>> THEN <<>>
  ELSE IF IsWordChar(Head(name))
  THEN <<Head(name)>> \o SanitizeFrom(Tail(name), FALSE)
  ELSE (IF inRun THEN <<>> ELSE <<"_">>) \o SanitizeFrom(Tail(name), TRUE)
Sanitize(name) == SanitizeFrom(name, FALSE)

\* The names registered, and the objects: two of them equal and not the same.
GlobalNames == {<<"f">>, <<"a", ".", "b">>, <<"a", "_", "b">>, <<"a", ".", ".", "b">>}
GlobalKeys == {Sanitize(n) : n \in GlobalNames}
PyObject(i, v) == [id |-> i, val |-> v]
Unbound == PyObject(0, "unbound")
Objects == {PyObject(1, "fn"), PyObject(2, "fn"), PyObject(3, "gn")}

\* id(f_globals[name]) == id(value)
SameObjectByValue(bound, value) == bound.val = value.val
SameObject(bound, value) == bound.id = value.id

\* tx.update_co_names(name)
UpdateCoNames(names, name) == IF name \in Range(names) THEN names ELSE Append(names, name)

\* create_load_global(name, add): the name table after it, whether the
\* assertion failed, and the instruction.
CreateLoadGlobal(names, name, add) ==
  LET after == IF add THEN UpdateCoNames(names, name) ELSE names
  IN IF name \in Range(after)
     THEN [co_names |-> after, raised |-> FALSE,
           insts |-> <<CreateInstruction("LOAD_GLOBAL", IntArg(IndexOf(after, name)), name)>>]
     ELSE [co_names |-> after, raised |-> TRUE, insts |-> <<>>]

\* setup_globally_cached(name, value); the list it returns is left in fnRes.
SetupGloballyCached(name, value) ==
  /\ ops < MaxOps
  /\ ops' = ops + 1
  /\ fnArg' = [name |-> name, value |-> value]
  /\ LET key == Sanitize(name)
     IN IF f_globals[key] # Unbound /\ ~SameObject(f_globals[key], value)
        THEN /\ fnRes' = [done |-> TRUE, raised |-> TRUE, insts |-> <<>>]
             /\ UNCHANGED <<f_globals, co_names>>
        ELSE LET r == CreateLoadGlobal(co_names, key, TRUE)
             IN /\ f_globals' = IF f_globals[key] # Unbound THEN f_globals
                                 ELSE [f_globals EXCEPT ![key] = value]
                /\ co_names' = r.co_names
                /\ fnRes' = [done |-> TRUE, raised |-> r.raised, insts |-> r.insts]
  /\ UNCHANGED <<top_of_stack, uses, graph_outputs, output, tempvars, guards, co_varnames,
                 co_consts, stack, locals, last, lastConst, loaded>>
  /\ UNCHANGED <<storage, buffers, realized>>
  /\ UNCHANGED <<fpVars, schedVars, driverVars>>

\* create_load_global(name) called by itself, without add.
LoadGlobalCall(name) ==
  /\ ops < MaxOps
  /\ ops' = ops + 1
  /\ fnArg' = [name |-> name, value |-> Unbound]
  /\ LET r == CreateLoadGlobal(co_names, name, FALSE)
     IN fnRes' = [done |-> TRUE, raised |-> r.raised, insts |-> r.insts]
  /\ UNCHANGED <<top_of_stack, uses, graph_outputs, output, tempvars, guards, co_varnames,
                 co_consts, co_names, stack, locals, last, lastConst, loaded>>
  /\ UNCHANGED <<storage, buffers, realized>>
  /\ UNCHANGED <<fpVars, txVars, schedVars, driverVars>>

\* No global is registered.
FrameIdle == f_globals = [k \in GlobalKeys |-> Unbound]

(***************************************************************************)
(* PyCodegen.make_function_with_closure.                                   *)
(***************************************************************************)
\* The nested code object and its display name, as constants.
PyCode == [type |-> "code", num |-> 0, nan |-> FALSE, repr |-> "<code>"]
PyStr(x) == [type |-> "str", num |-> 0, nan |-> FALSE, repr |-> x]

RECURSIVE LoadClosures(_, _)
\* The loop over code.co_freevars: the output after it, and whether the
\* assertion on a variable failed.
LoadClosures(freevars, out) ==
  IF freevars = <<>> THEN [output |-> out, raised |-> FALSE]
  ELSE IF Head(freevars) \notin Range(CellAndFreevars) THEN [output |-> out, raised |-> TRUE]
  ELSE LoadClosures(Tail(freevars),
                    Append(out, CreateInstruction("LOAD_CLOSURE",
                                                  IntArg(IndexOf(CellAndFreevars, Head(freevars))),
                                                  Head(freevars))))

\* make_function_with_closure(fn_name, code, num_on_stack), code.co_freevars
\* being freevars.
MakeFunctionWithClosure(fn_name, freevars, num_on_stack, atLeast38) ==
  /\ ops < MaxOps
  /\ ops' = ops + 1
  /\ LET lc == LoadClosures(freevars, output)
         r1 == CreateLoadConstUnchecked(co_consts, PyCode)
         r2 == CreateLoadConstUnchecked(r1.co_consts, PyStr(fn_name))
         rot == RotN(r2.co_consts, num_on_stack + 1, atLeast38)
     IN IF freevars = <<>>
        THEN \* assert freevars
             /\ last' = [op |-> "make_function", value |-> fn_name, branch |-> "raised"]
             /\ UNCHANGED <<output, co_consts, top_of_stack, stack>>
        ELSE IF lc.raised
        THEN \* assert var in self.cell_and_freevars()
             /\ output' = lc.output
             /\ last' = [op |-> "make_function", value |-> fn_name, branch |-> "raised"]
             /\ UNCHANGED <<co_consts, top_of_stack, stack>>
        ELSE /\ output' =
                  lc.output
                    \o <<CreateInstruction("BUILD_TUPLE", IntArg(Len(freevars)), NoneV),
                         r1.inst, r2.inst,
                         CreateInstruction("MAKE_FUNCTION", IntArg(8), NoneV)>>
                    \o rot.insts
             /\ co_consts' = rot.co_consts
             /\ top_of_stack' = ClearTos(top_of_stack)
             /\ stack' = IF Len(stack) >= num_on_stack
                          THEN NativeRot(Push(stack, fn_name), num_on_stack + 1)
                          ELSE Push(stack, fn_name)
             /\ last' = [op |-> "make_function", value |-> fn_name, branch |-> "emit"]
  /\ UNCHANGED <<uses, graph_outputs, tempvars, guards, co_varnames, co_names, locals,
                 lastConst, loaded>>
  /\ UNCHANGED <<fpVars, txVars, schedVars, driverVars, irVars>>

\* The free variables of the nested code objects tried.
FreevarChoices == {<<>>, <<"cell0">>, <<"cell0", "y">>, <<"y">>}

\* The stacks rot_n(n) is tried on: at least n values.
RECURSIVE SeqsOf(_, _)
SeqsOf(S, k) ==
  IF k = 0 THEN {<<>>} ELSE {Append(q, x) : q \in SeqsOf(S, k - 1), x \in S}
RotArgs ==
  {[n |-> n, atLeast38 |-> h, stack |-> st] :
     n \in 1..MaxRot, h \in BOOLEAN,
     st \in UNION {SeqsOf({StackValue("a"), StackValue("b")}, k) : k \in 0..(MaxRot + MaxBelow)}}

(***************************************************************************)
(* FlexibleLayout.default_strides and SqueezeView.squeezer                 *)
(* (torchinductor/ir.py).                                                  *)
(***************************************************************************)
RECURSIVE StridesLoop(_, _)
\* for size in reversed(sizes[1:]): reversed_strides.append(size * reversed_strides[-1])
StridesLoop(list, reversed_strides) ==
  IF list = <<>> THEN reversed_strides
  ELSE StridesLoop(Tail(list),
                   Append(reversed_strides, Head(list) * reversed_strides[Len(reversed_strides)]))

\* FlexibleLayout.default_strides(sizes)
DefaultStridesAll(sizes) ==
  IF Len(sizes) = 0 THEN <<>> ELSE Reverse(StridesLoop(Reverse(sizes), <<1>>))
DefaultStrides(sizes) ==
  IF Len(sizes) = 0 THEN <<>> ELSE Reverse(StridesLoop(Reverse(Tail(sizes)), <<1>>))

DefaultStridesCall ==
  /\ ~fnRes.done
  /\ fnRes' = [done |-> TRUE, strides |-> DefaultStrides(fnArg)]
  /\ UNCHANGED <<storage, buffers, realized, fnArg>>
  /\ UNCHANGED <<fpVars, txVars, schedVars, driverVars, cgVars>>

\* The sizes a stride list is asked for.
StrideSizes == 1..4

\* A size or an index as an expression: "1" is the integer one, "0" the
\* integer zero, "s0" a symbol.
SqueezeSizes == {"1", "5", "7", "s0"}
\* s != 1
NotOneAny(x) == TRUE
NotOne(x) == x # "1"

\* [i for i, s in enumerate(size) if s != 1], counted from 1.
NotOneAxes(size) ==
  SelectSeq([i \in 1..Len(size) |-> i], LAMBDA i : NotOne(size[i]))

RECURSIVE ReindexLoop(_, _, _)
\* for idx, s in zip(not_one, index): new_index[idx] = s
ReindexLoop(new_index, not_one, index) ==
  IF not_one = <<>> \/ index = <<>> THEN new_index
  ELSE ReindexLoop([new_index EXCEPT ![Head(not_one)] = Head(index)], Tail(not_one), Tail(index))

\* SqueezeView.squeezer(size): new_size, and what reindex closes over.
Squeezer(size) ==
  [new_size |-> SelectSeq(size, NotOne),
   not_one |-> NotOneAxes(size),
   length |-> Len(size)]

\* reindex(index) of the squeezer sq.
Reindex(sq, index) ==
  IF Len(index) # Len(sq.not_one)
  THEN [raised |-> TRUE, new_index |-> <<>>]
  ELSE [raised |-> FALSE,
        new_index |-> ReindexLoop([i \in 1..sq.length |-> "0"], sq.not_one, index)]

\* squeezer(size), then reindex(index) on what it returned.
SqueezerCall ==
  /\ ~fnRes.done
  /\ LET sq == Squeezer(fnArg.size)
         r == Reindex(sq, fnArg.index)
     IN fnRes' = [done |-> TRUE, new_size |-> sq.new_size, raised |-> r.raised,
                  new_index |-> r.new_index]
  /\ UNCHANGED <<storage, buffers, realized, fnArg>>
  /\ UNCHANGED <<fpVars, txVars, schedVars, driverVars, cgVars>>

\* The indices reindex is tried on: the first k of these coordinates.
IndexSymbols == <<"a", "b", "c", "d", "e", "f">>

\* The emitter as PyCodegen.__init__ leaves it, for a code object with the
\* given locals and constants and the given values marked for caching.
InitEmitter(varnames, consts, marked) ==
  /\ top_of_stack = NoneV
  /\ uses = [v \in Values |-> 0]
  /\ graph_outputs = <<>>
  /\ output = <<>>
  /\ tempvars = [v \in Values |-> IF v \in marked THEN NoneV ELSE "absent"]
  /\ guards = {}
  /\ co_varnames = varnames
  /\ co_consts = consts
  /\ co_names = <<>>
  /\ ops = 0
  /\ stack = <<>>
  /\ locals = {}
  /\ last = NoCall
  /\ lastConst = NoConstLoad
  /\ loaded = [c \in PyConsts |-> {}]

\* The locals of the frame: with or without the first part of the module key.
VarnameChoices == {<<"self", "x", GraphOutputVar>>, <<"x", GraphOutputVar>>}
\* The constants of the original code object.
ConstChoices == {<<>>, <<PyInt(1)>>}

InitSched(gs) ==
  /\ graph \in gs
  /\ removed_buffers = {}
  /\ phase = "new"
  /\ nodes = <<>>
  /\ users = [b \in Bufs |-> <<>>]
  /\ unmet = [b \in Bufs |-> {}]
  /\ available_buffer_names = {}
  /\ pending_buffer_names = {}
  /\ fusable_deps = {}
  /\ runable_nodes = EmptyQueues.runable_nodes
  /\ runable_reduction_groups = <<>>
  /\ runable_pointwise_groups = <<>>
  /\ boxes = <<>>
  /\ name_to_nodes = EmptyQueues.name_to_nodes
  /\ dep_to_nodes = EmptyQueues.dep_to_nodes
  /\ run_count = 0
  /\ kernels = 0
  /\ pg = NoFrame
  /\ cur = NoneV
  /\ drv = "top"
  /\ itKey = NoneV
  /\ ran = {}
  /\ handed = [b \in Bufs |-> 0]
  /\ ranInKernel = {}

(***************************************************************************)
(* The IR model: StorageBox.realize (torchinductor/ir.py).                 *)
(***************************************************************************)
\* The storage handles (StorageBox objects).
Handles == {"h1", "h2", "h3"}
\* What a handle wraps before any realize: an unrealized loop, a reduction,
\* or a node realize does not accept.
LoopKinds == {"UnrealizedBuffer", "Reduction"}
LazyNode(kind) == [kind |-> kind, name |-> NoneV, data |-> NoneV]
\* ComputedBuffer(name, layout, data): data is the loop it was made from.
ComputedBuffer(name, data) == [kind |-> "ComputedBuffer", name |-> name, data |-> data.kind]
\* isinstance(self.data, ComputedBuffer)
IsComputedBufferNever(d) == FALSE
IsComputedBuffer(d) == d.kind = "ComputedBuffer"
\* graph.register_buffer(buffer): a fresh unique name, the buffer recorded.
RegisterBuffer(bufs, data) ==
  LET name == "buf" \o ToString(Len(bufs))
  IN [name |-> name, buffers |-> Append(bufs, ComputedBuffer(name, data))]

\* No function was applied yet.
NoResult == [done |-> FALSE]

\* StorageBox.realize() on handle h.
Realize(h) ==
  /\ Len(realized) < MaxRealize
  /\ LET d == storage[h]
     IN IF IsComputedBuffer(d)
        THEN /\ realized' = Append(realized, [handle |-> h, name |-> d.name, raised |-> FALSE])
             /\ UNCHANGED <<storage, buffers>>
        ELSE IF d.kind \in LoopKinds
        THEN LET r == RegisterBuffer(buffers, d)
             IN /\ storage' = [storage EXCEPT ![h] = ComputedBuffer(r.name, d)]
                /\ buffers' = r.buffers
                /\ realized' = Append(realized, [handle |-> h, name |-> r.name, raised |-> FALSE])
        ELSE \* assert isinstance(self.data, (UnrealizedBuffer, Reduction))
             /\ realized' = Append(realized, [handle |-> h, name |-> NoneV, raised |-> TRUE])
             /\ UNCHANGED <<storage, buffers>>
  /\ UNCHANGED <<fnArg, fnRes>>
  /\ UNCHANGED <<fpVars, txVars, schedVars, driverVars, cgVars>>

\* The handles as created, and the buffers the graph registered before.
InitStorage ==
  /\ storage \in [Handles -> {LazyNode(k) : k \in LoopKinds \cup {"InputBuffer"}}]
  /\ buffers \in {<<>>, <<ComputedBuffer("buf0", LazyNode("Reduction"))>>}
  /\ realized = <<>>
  /\ fnArg = NoneV
  /\ fnRes = NoResult

\* No storage handle is realized and no function of the IR model applied.
IrIdle ==
  /\ storage = <<>>
  /\ buffers = <<>>
  /\ realized = <<>>
  /\ fnArg = NoneV
  /\ fnRes = NoResult

\* No emitter call is made while the scheduler is driven.
EmitterIdle == InitEmitter(<<"x", GraphOutputVar>>, <<>>, {})
\* No scheduler is driven while the emitter is called.
SchedulerIdle == InitSched({MkGraph({}, {}, [b \in Bufs |-> "g1"], {})})

Init == InitSched(FreeGraphs) /\ EmitterIdle /\ IrIdle /\ FpIdle /\ FrameIdle
InitDrain == InitSched(DrainGraphs) /\ EmitterIdle /\ IrIdle /\ FpIdle /\ FrameIdle
InitDrainFair == InitSched(FairGraphs) /\ EmitterIdle /\ IrIdle /\ FpIdle /\ FrameIdle
InitCG ==
  /\ SchedulerIdle
  /\ FpIdle /\ FrameIdle
  /\ IrIdle
  /\ \E varnames \in VarnameChoices, marked \in SUBSET {"g"} :
       InitEmitter(varnames, <<>>, marked)
InitConst ==
  /\ SchedulerIdle
  /\ FpIdle /\ FrameIdle
  /\ IrIdle
  /\ \E consts \in ConstChoices : InitEmitter(<<"x", GraphOutputVar>>, consts, {})

Next ==
  \/ Construct
  \/ PopGroup
  \/ Run
  \/ MarkFusable
  \/ Kernel
  \/ Barrier

Spec == Init /\ [][Next]_vars

NextDrain ==
  \/ Construct
  \/ DrainIter
  \/ DrainKernel
  \/ DrainPop
  \/ DrainRun
  \/ DrainRunFuse
  \/ DrainBarrier
  \/ DrainRemove

SpecDrain == InitDrain /\ [][NextDrain]_vars

\* The draining driver alone (no maybe_remove_buffer), with or without a
\* kernel around each pop_group, under the scheduling of sequential code: a
\* loop that can take a step takes one.
NextDrainLoop ==
  \/ Construct
  \/ DrainIter
  \/ DrainKernel
  \/ DrainPopNoKernel
  \/ DrainPop
  \/ DrainRun
  \/ DrainRunFuse
  \/ DrainBarrier

\* The steps of the construction and of a barrier call in the loop.
ConstructDue == phase = "new" /\ phase' = "ready"
BarrierDue == drv = "barrier" /\ drv' = "top"

SpecDrainFair ==
  /\ InitDrainFair
  /\ [][NextDrainLoop]_vars
  /\ WF_vars(DrainIter \/ DrainKernel \/ DrainPopNoKernel \/ DrainPop \/ DrainRun
               \/ DrainRunFuse)
  /\ WF_phase(ConstructDue)
  /\ WF_drv(BarrierDue)

\* The graphs the loop over iter_fixed_point is run on: pointwise nodes,
\* every buffer or only the last a declared output.
FixedGraphs ==
  {MkGraph(E, {}, G, O) : E \in {X \in EdgeSets : \A e \in X : e[2].name \notin ForeignNames},
                          G \in GroupMaps, O \in {Bufs, {BufOrder[Len(BufOrder)]}}}
InitFixed == InitSched(FixedGraphs) /\ EmitterIdle /\ IrIdle /\ FpIdle /\ FrameIdle

NextFixed ==
  \/ Construct
  \/ IterFixedPoint
  \/ FixedPopGroup
  \/ FixedRun
  \/ FixedMarkFusable
  \/ FixedBarrier

\* The loop run as sequential code: the construction ends, a node handed out
\* is run, a generator in flight is advanced, and the loop asks for the next
\* round when the round is over.
SpecFixed ==
  /\ InitFixed
  /\ [][NextFixed]_vars
  /\ WF_vars(IterFixedPoint \/ FixedRun \/ (pg # NoFrame /\ FixedPopGroup))
  /\ WF_phase(ConstructDue)

\* The emitter under any sequence of load-value calls and raw appends.
LoadValue == \E v \in Values, allow_cache \in BOOLEAN : Call(v, allow_cache)
LoadSource == \E src \in Sources : CallSource(src)
AppendRaw == \E inst \in RawInsts : AppendOutput(inst)
ExtendRaw == \E insts \in RawLists : ExtendOutput(insts)

NextCG ==
  \/ LoadValue
  \/ LoadSource
  \/ AppendRaw
  \/ ExtendRaw

SpecCG == InitCG /\ [][NextCG]_vars

\* The graph-output mapping under loads of tensors, loads of other values
\* and raw appends between them.
LoadTensor == \E v \in Tensors, allow_cache \in BOOLEAN : Call(v, allow_cache)
LoadOther == \E v \in {"k", "g"} : Call(v, TRUE)
InitSlots ==
  /\ SchedulerIdle
  /\ FpIdle /\ FrameIdle
  /\ IrIdle
  /\ \E varnames \in VarnameChoices : InitEmitter(varnames, <<>>, {})

NextSlots ==
  \/ LoadTensor
  \/ LoadOther
  \/ AppendRaw

SpecSlots == InitSlots /\ [][NextSlots]_vars

\* The emitter under calls that may abort: loads of a tensor in a frame
\* with or without the graph-output variable, loads of a value that cannot
\* be reconstructed, and closure construction.
LoadFailing == \E v \in Tensors \cup {"bad", "g"} : Call(v, TRUE)
MakeFunction ==
  \E freevars \in FreevarChoices, num_on_stack \in {0, 1}, atLeast38 \in BOOLEAN :
    MakeFunctionWithClosure("fn", freevars, num_on_stack, atLeast38)
InitFail ==
  /\ SchedulerIdle
  /\ FpIdle /\ FrameIdle
  /\ IrIdle
  /\ \E varnames \in {<<"x", GraphOutputVar>>, <<"x">>} : InitEmitter(varnames, <<>>, {})

NextFail ==
  \/ LoadFailing
  \/ MakeFunction

SpecFail == InitFail /\ [][NextFail]_vars

\* Registrations and loads of globals in a frame that may already bind one
\* of the names.
InitGlobals ==
  /\ SchedulerIdle
  /\ FpIdle
  /\ IrIdle
  /\ EmitterIdle
  /\ \E k \in GlobalKeys, o \in Objects \cup {Unbound} :
       f_globals = [x \in GlobalKeys |-> IF x = k THEN o ELSE Unbound]

SetupGlobal == \E name \in GlobalNames, value \in Objects : SetupGloballyCached(name, value)
LoadGlobal == \E name \in GlobalKeys : LoadGlobalCall(name)

NextGlobals ==
  \/ SetupGlobal
  \/ LoadGlobal

SpecGlobals == InitGlobals /\ [][NextGlobals]_vars

\* rot_n on any n and host, its instructions run on any stack deep enough.
InitRot ==
  /\ SchedulerIdle
  /\ FpIdle /\ FrameIdle
  /\ \E consts \in ConstChoices : InitEmitter(<<"x", GraphOutputVar>>, consts, {})
  /\ storage = <<>>
  /\ buffers = <<>>
  /\ realized = <<>>
  /\ fnArg \in {a \in RotArgs : Len(a.stack) >= a.n /\ Len(a.stack) <= a.n + MaxBelow}
  /\ fnRes = NoResult

NextRot ==
  \/ RotNCall

SpecRot == InitRot /\ [][NextRot]_vars

\* default_strides on any size list.
InitStrides ==
  /\ SchedulerIdle
  /\ FpIdle /\ FrameIdle
  /\ EmitterIdle
  /\ storage = <<>>
  /\ buffers = <<>>
  /\ realized = <<>>
  /\ fnArg \in UNION {SeqsOf(StrideSizes, k) : k \in 0..MaxRank}
  /\ fnRes = NoResult

NextStrides ==
  \/ DefaultStridesCall

SpecStrides == InitStrides /\ [][NextStrides]_vars

\* squeezer on any shape, its reindex on an index of any length.
InitSqueeze ==
  /\ SchedulerIdle
  /\ FpIdle /\ FrameIdle
  /\ EmitterIdle
  /\ storage = <<>>
  /\ buffers = <<>>
  /\ realized = <<>>
  /\ fnArg \in {[size |-> sz, index |-> SubSeq(IndexSymbols, 1, k)] :
                  sz \in UNION {SeqsOf(SqueezeSizes, n) : n \in 0..MaxRank},
                  k \in 0..(MaxRank + 1)}
  /\ fnRes = NoResult

NextSqueeze ==
  \/ SqueezerCall

SpecSqueeze == InitSqueeze /\ [][NextSqueeze]_vars

\* The storage handles under any sequence of realize calls.
InitRealize == SchedulerIdle /\ FpIdle /\ FrameIdle /\ EmitterIdle /\ InitStorage
StorageRealize == \E h \in Handles : Realize(h)
NextRealize ==
  \/ StorageRealize

SpecRealize == InitRealize /\ [][NextRealize]_vars

\* The constant table under any sequence of constant loads.
LoadConst == \E value \in PyConsts : CreateLoadConst(value)
LoadConstUnchecked == \E value \in {PyRoot, PyNaN, PyInt(1)} : CreateLoadOutput(value)

NextConst ==
  \/ LoadConst
  \/ LoadConstUnchecked

SpecConst == InitConst /\ [][NextConst]_vars

(***************************************************************************)
(* Properties of the scheduler.                                            *)
(***************************************************************************)
InPool(n) == \E g \in Groups : n \in Range(runable_nodes[g])
InFrame(n) == n \in Range(pg.list)
ValidBoxes(n) == {i \in DOMAIN boxes : boxes[i] = n}
Retained == Range(nodes)

\* Every read names a graph input or another node.
ReadsResolved == \A b \in Bufs : \A d \in graph.reads[b] : d.name \in GraphInputs \cup Bufs

DrainedClean ==
  /\ drv = "done"
  /\ IterAssertions
  /\ run_count = Len(nodes)
  /\ ran = Retained
  /\ \A n \in Retained : handed[n] = 1
  /\ \A g \in Groups : runable_nodes[g] = <<>>
  /\ \A i \in DOMAIN boxes : boxes[i] = NoneV

\* C1: scheduling completeness. On a graph whose every read names a graph
\* input or another node, the draining driver (a key from
\* iter_runable_groups, every node of pop_group run, then barrier) never
\* fails an assertion of iter_runable_groups and always terminates, with
\* every retained node run exactly once, run_count == len(nodes), the
\* runnable pool empty and no valid box left in the blocked index.
C1_Completeness ==
  /\ [](ReadsResolved => drv # "failed")
  /\ [](ReadsResolved /\ drv = "done" => DrainedClean)
  /\ (ReadsResolved /\ phase = "new") ~> DrainedClean

\* A drained scheduling of three retained nodes, one of which went through
\* the blocked index twice.
C1_Witness ==
  /\ ReadsResolved
  /\ DrainedClean
  /\ Len(nodes) = 3
  /\ Len(boxes) >= 2
  /\ kernels >= 2

\* C2: dependency order. Whenever the driver runs a node, every buffer name
\* the node reads is a graph input or was written by a node run earlier.
C2_DependencyOrder ==
  [][(cur # NoneV /\ cur' = NoneV) =>
       \A d \in graph.reads[cur] : d.name \in GraphInputs \cup ran]_vars

\* A node handed out by pop_fusable has been run while the node it reads is
\* only pending.
C2_Witness ==
  \E n \in ran : \E d \in graph.reads[n] :
    d.name \in pending_buffer_names /\ d.name \in ran /\ n \in pending_buffer_names

\* A name run since the last barrier is pending and not available, the
\* dependencies on it are still unmet, and no node reading it is in the
\* runnable pool.
StagedNames ==
  /\ pending_buffer_names \cap available_buffer_names = {}
  /\ available_buffer_names \cup pending_buffer_names = GraphInputs \cup ran
  /\ \A n \in Retained : \A d \in graph.reads[n] :
       d.name \in pending_buffer_names => (d \in unmet[n] /\ ~InPool(n))

\* The step is a barrier call.
IsBarrierStep ==
  /\ pending_buffer_names' = {}
  /\ available_buffer_names' = available_buffer_names \cup pending_buffer_names
  /\ run_count' = run_count
  /\ cur' = cur /\ pg' = pg

\* C3: barrier staging. The name of a node run since the last barrier is
\* only in pending_buffer_names; after construction, a name enters
\* available_buffer_names, an unmet dependency is pruned and a node is added
\* to the runnable pool only in a barrier step.
C3_BarrierStaging ==
  /\ [](phase = "ready" => StagedNames)
  /\ [][(phase = "ready" /\
          (\/ available_buffer_names' # available_buffer_names
           \/ unmet' # unmet
           \/ \E n \in Bufs : InPool(n)' /\ ~InPool(n)))
        => IsBarrierStep]_vars

\* A producer has run and its consumer, otherwise ready, is still blocked
\* on the pending name.
C3_Witness ==
  \E n \in Retained : \E d \in unmet[n] :
    /\ d.name \in pending_buffer_names
    /\ unmet[n] = {d}
    /\ ValidBoxes(n) # {}
    /\ kernels >= 1

\* C4: dead-buffer elimination. After construction a computed buffer that is
\* not a declared output and is read by no other node is not in
\* scheduler.nodes and is in graph.removed_buffers, and every node of
\* scheduler.nodes has a non-empty consumer list.
C4_DeadBuffers ==
  phase = "ready" =>
    /\ \A b \in Bufs :
         (b \notin graph.outputs /\ ~\E c \in Bufs \ {b} : \E d \in graph.reads[c] : d.name = b)
           => (b \notin Retained /\ b \in removed_buffers)
    /\ \A n \in Retained : users[n] # <<>>

\* After construction one buffer is dead and two are kept, one of them not
\* an output.
C4_Witness ==
  /\ phase = "ready"
  /\ \E b \in Bufs : b \notin Retained /\ b \in removed_buffers
  /\ \E n \in Retained : n \notin graph.outputs
  /\ Len(nodes) = 2

\* C5: output buffers are never removed. In every state no declared graph
\* output is in graph.removed_buffers: compute_users keeps its node and
\* maybe_remove_buffer never removes it.
C5_OutputsKept == graph.outputs \cap removed_buffers = {}

\* A reduction that is a declared output with the output sentinel as its one
\* consumer has been kept and run, and maybe_remove_buffer has removed
\* another retained buffer.
C5_Witness ==
  /\ \E o \in graph.outputs \cap Retained :
       IsReduction(o) /\ Len(users[o]) = 1 /\ users[o][1].kind = "OutputNode" /\ o \in ran
  /\ removed_buffers \cap Retained # {}

\* The conditions under which the buffer of node R is elided.
ElisionCase(R) ==
  /\ graph.red[R]
  /\ Len(users[R]) = 1
  /\ \E C \in Range(users[R]) :
       /\ Cardinality(UserUnmet(C)) = 1
       /\ UserUnmet(C) \subseteq Writes(R)
       /\ C.kind = "SchedulerNode" => ~graph.red[C.name]

\* C6: reduction-into-consumer elision. can_remove_buffer of a node R is true
\* exactly when R is a reduction with exactly one consumer C, the current
\* unmet set of C has exactly one element, that element is a write of R, and
\* C is not a reduction; maybe_remove_buffer removes no other buffer.
C6_Elision ==
  /\ [](phase = "ready" => \A R \in Retained : CanRemoveBuffer(R) <=> ElisionCase(R))
  /\ [][phase = "ready" /\ removed_buffers' # removed_buffers =>
          \E R \in Retained : ElisionCase(R) /\ removed_buffers' = removed_buffers \cup {R}]_vars

\* A reduction has been elided into its one pointwise consumer, once the
\* other of the two dependencies of that consumer had been met.
C6_Witness ==
  \E R \in Retained \cap removed_buffers :
    /\ ElisionCase(R)
    /\ users[R][1].kind = "SchedulerNode"
    /\ Cardinality({d.name : d \in graph.reads[users[R][1].name]}) = 2

\* The step is a run of the node the driver was handed.
IsRunStep == cur # NoneV /\ cur' = NoneV

\* C7: run counter and at-most-once. A run adds exactly one to run_count and
\* no other step changes it; no node is handed to the driver more than once;
\* run_count never exceeds the number of retained nodes.
C7_RunCount ==
  /\ [](/\ \A n \in Bufs : handed[n] <= 1
        /\ run_count = Cardinality(ran)
        /\ run_count <= Len(nodes))
  /\ [][IF IsRunStep THEN run_count' = run_count + 1 ELSE run_count' = run_count]_vars

\* A node registered in the blocked index under two dependencies on one
\* name has been handed out once and run, and every node has run.
C7_Witness ==
  /\ run_count = 3
  /\ \E n \in ran :
       /\ handed[n] = 1
       /\ \E d, e \in graph.reads[n] : d # e /\ d.name = e.name /\ d.name \in Bufs

\* Where a node not yet handed out is filed.
FiledByUnmet(n) ==
  /\ InPool(n) <=> unmet[n] = {}
  /\ ValidBoxes(n) # {} <=> unmet[n] # {}
  /\ Cardinality(ValidBoxes(n)) <= 1

\* C8: after construction an unmet-dependency set never gains an element,
\* and a node is filed in the runnable pool exactly when its set is empty
\* when it is enqueued, in the blocked index (alone) when it is not.
C8_UnmetShrinks ==
  /\ [][phase = "ready" => \A n \in Bufs : unmet'[n] \subseteq unmet[n]]_vars
  /\ [](\A n \in Bufs : unmet[n] \subseteq graph.reads[n])
  /\ [](phase = "ready" =>
          \A n \in Retained : (handed[n] = 0 /\ ~InFrame(n)) => FiledByUnmet(n))

\* A node blocked at construction has had its set pruned to empty by a
\* barrier and is in the runnable pool, while another is still blocked.
C8_Witness ==
  /\ \E n \in Retained :
       /\ InPool(n) /\ unmet[n] = {}
       /\ \E d \in graph.reads[n] : d.name \in Bufs
  /\ \E m \in Retained : ValidBoxes(m) # {} /\ unmet[m] # {}

(***************************************************************************)
(* Properties of the emitter.                                              *)
(***************************************************************************)
\* C9: top-of-stack cache. After every load-value call on a symbolic value
\* that returned, whichever branch served it (DUP_TOP, a temporary, or the
\* emission of the value), top_of_stack is that value; and a DUP_TOP emitted
\* for a value duplicates that very value, left on top of the stack by the
\* instructions emitted before it.
C9_TosCache ==
  /\ (last.op = "call" /\ last.branch \in {"dup", "tempvar", "emit"})
       => top_of_stack = last.value
  /\ (last.op = "call" /\ last.branch = "dup")
       => (Len(stack) >= 2 /\ stack[Len(stack) - 1] = last.value)

\* The entries of a table that have the runtime type and the value of a
\* constant.
EqualEntries(consts, value) ==
  {i \in DOMAIN consts : consts[i].type = value.type /\ PyEq(consts[i], value)}

\* The last constant load reused the first equal entry and left the table
\* alone, or appended exactly its value and used the new index.
LoadRule ==
  lastConst.op = "load" =>
    LET before == lastConst.before
        equal == EqualEntries(before, lastConst.value)
    IN IF equal # {}
       THEN /\ co_consts = before
            /\ lastConst.index + 1 \in equal
            /\ \A j \in equal : lastConst.index + 1 <= j
       ELSE /\ co_consts = Append(before, lastConst.value)
            /\ lastConst.index = Len(before)

\* Every load of the literal used one index, and the table holds it once at
\* most.
OneIndex(value) ==
  /\ Cardinality(loaded[value]) <= 1
  /\ Cardinality({i \in DOMAIN co_consts : co_consts[i] = value}) <= 1

\* C10: constant-table dedup and index stability. Every load follows the
\* rule of the scan (the first entry of the same runtime type and equal
\* value is reused and the table is left alone, otherwise the value is
\* appended and the new index used), and loading the same literal twice
\* yields the same index and grows the table by at most one entry.
C10_DedupAnyLiteral ==
  /\ LoadRule
  /\ \A value \in PyConsts : OneIndex(value)

\* What the scan does guarantee: the table changes only by an append at its
\* end; every load follows the rule of the scan; a literal that compares
\* equal to itself has one index and one entry at most. A float NaN is not
\* such a literal.
DedupOfSelfEqual ==
  /\ [][Len(co_consts') >= Len(co_consts)
         /\ SubSeq(co_consts', 1, Len(co_consts)) = co_consts
         /\ Len(co_consts') <= Len(co_consts) + 1]_vars
  /\ [](LoadRule)
  /\ [](\A value \in PyConsts : PyEq(value, value) => OneIndex(value))

\* After the loads of 1, True and -0.0, a second load of -0.0 has used the
\* index of the first and left the table alone; 1 and True have an entry
\* each.
DedupReached ==
  /\ lastConst.op = "load"
  /\ lastConst.value = PyFloatNegZero
  /\ co_consts = lastConst.before
  /\ loaded[PyFloatNegZero] = {lastConst.index}
  /\ Cardinality(loaded[PyInt(1)]) = 1
  /\ Cardinality(loaded[PyTrue]) = 1
  /\ loaded[PyInt(1)] # loaded[PyTrue]

(***************************************************************************)
(* Properties of the graph-output mapping.                                 *)
(***************************************************************************)
\* The last call loaded a tensor through the tensor branch.
TensorLoaded == last.op = "call" /\ last.branch = "emit" /\ IsTensorVariable(last.value)

\* The three instructions the tensor branch emitted load graph_out[slot],
\* the slot being a constant of the table.
EmitsSlot(v, slot) ==
  LET n == Len(output)
  IN /\ n >= 3
     /\ output[n - 2] = CreateLoad(co_varnames, GraphOutputVar)
     /\ output[n - 1].opname = "LOAD_CONST"
     /\ output[n - 1].argval = ToString(slot)
     /\ output[n - 1].arg.int + 1 \in DOMAIN co_consts
     /\ co_consts[output[n - 1].arg.int + 1] = PyInt(slot)
     /\ output[n].opname = "BINARY_SUBSCR"

\* C11: graph-output slots. A tensor gets its slot on its first load through
\* the tensor branch, equal to the number of tensors mapped so far; every
\* load of it through that branch emits that index; the assigned slots are
\* exactly 0..k-1, no two tensors share one, and no assigned slot changes.
C11_Slots ==
  /\ [](/\ \A i, j \in DOMAIN graph_outputs :
              (i # j) => /\ graph_outputs[i].key # graph_outputs[j].key
                        /\ graph_outputs[i].val # graph_outputs[j].val
        /\ {graph_outputs[i].val : i \in DOMAIN graph_outputs} = 0..(Len(graph_outputs) - 1)
        /\ \A i \in DOMAIN graph_outputs : IsTensorVariable(graph_outputs[i].key))
  /\ [](TensorLoaded =>
          /\ DictHas(graph_outputs, last.value)
          /\ EmitsSlot(last.value, DictGet(graph_outputs, last.value)))
  /\ [][/\ \A v \in Values :
              DictHas(graph_outputs, v) =>
                /\ DictHas(graph_outputs', v)
                /\ DictGet(graph_outputs', v) = DictGet(graph_outputs, v)
        /\ \A v \in Values :
              (~DictHas(graph_outputs, v) /\ DictHas(graph_outputs', v)) =>
                /\ DictGet(graph_outputs', v) = Len(graph_outputs)
                /\ last'.op = "call" /\ last'.value = v /\ last'.branch = "emit"]_vars

\* Two tensors are mapped and the first was loaded again through the tensor
\* branch, at slot 0, after the second got slot 1.
C11_Witness ==
  /\ TensorLoaded
  /\ Len(graph_outputs) = 2
  /\ DictGet(graph_outputs, last.value) = 0
  /\ Cardinality({i \in DOMAIN output : output[i].opname = "BINARY_SUBSCR"}) >= 3

(***************************************************************************)
(* Properties of the IR model.                                             *)
(***************************************************************************)
\* The step is a realize call on handle h; e is what the call returned.
RealizeStep(h) ==
  /\ Len(realized') = Len(realized) + 1
  /\ realized'[Len(realized')].handle = h

\* C12: materialization idempotence. The first realize on a handle wrapping
\* an unrealized loop or a reduction registers exactly one buffer and returns
\* its name; every later realize on the handle returns that name, registers
\* nothing and leaves the wrapped computed buffer as it is.
C12_RealizeOnce ==
  /\ [][\A h \in Handles :
          (RealizeStep(h) /\ storage[h].kind \in LoopKinds) =>
            LET e == realized'[Len(realized')]
            IN /\ ~e.raised
               /\ e.name # NoneV
               /\ Len(buffers') = Len(buffers) + 1
               /\ SubSeq(buffers', 1, Len(buffers)) = buffers
               /\ buffers'[Len(buffers')].name = e.name
               /\ \A i \in DOMAIN buffers : buffers[i].name # e.name
               /\ storage'[h] = buffers'[Len(buffers')]
               /\ \A g \in Handles \ {h} : storage'[g] = storage[g]]_vars
  /\ [][\A h \in Handles :
          (RealizeStep(h) /\ storage[h].kind = "ComputedBuffer") =>
            LET e == realized'[Len(realized')]
            IN /\ ~e.raised
               /\ e.name = storage[h].name
               /\ buffers' = buffers
               /\ storage' = storage]_vars
  /\ [](\A i, j \in DOMAIN realized :
          (realized[i].handle = realized[j].handle /\ ~realized[i].raised
             /\ ~realized[j].raised) => realized[i].name = realized[j].name)

\* A handle was realized twice, with another handle realized in between:
\* both calls returned one name and the two handles registered two buffers.
C12_Witness ==
  /\ Len(realized) = 3
  /\ realized[1].handle = realized[3].handle
  /\ realized[2].handle # realized[1].handle
  /\ \A i \in 1..3 : ~realized[i].raised
  /\ realized[1].name = realized[3].name
  /\ realized[2].name # realized[1].name
  /\ Len(buffers) = 3

(***************************************************************************)
(* Properties of the stack rotation.                                       *)
(***************************************************************************)
\* rot_n was called with an n it has no native instruction for.
RotFallbackDone ==
  /\ fnRes.done
  /\ fnArg.n >= 5 \/ (fnArg.n = 4 /\ ~fnArg.atLeast38)

\* C13: stack-rotation fallback. For n = 5 (and n = 4 on a host older than
\* 3.8) rot_n emits BUILD_TUPLE n, LOAD_CONST helper, ROT_TWO,
\* CALL_FUNCTION_EX, UNPACK_SEQUENCE n, and these, run on a stack of at least
\* n values, leave what a native n-way rotate leaves: the old top at depth n,
\* the others of the top n one up, everything below and the depth unchanged.
C13_RotFallback ==
  RotFallbackDone =>
    LET n == fnArg.n
        st == fnArg.stack
        L == Len(st)
    IN /\ Len(fnRes.insts) = 5
       /\ [i \in 1..5 |-> fnRes.insts[i].opname] =
            <<"BUILD_TUPLE", "LOAD_CONST", "ROT_TWO", "CALL_FUNCTION_EX", "UNPACK_SEQUENCE">>
       /\ fnRes.insts[1].arg = IntArg(n)
       /\ fnRes.insts[5].arg = IntArg(n)
       /\ co_consts[fnRes.insts[2].arg.int + 1] = PyRotHelper(n)
       /\ Len(fnRes.stack) = L
       /\ \A i \in 1..(L - n) : fnRes.stack[i] = st[i]
       /\ fnRes.stack[L - n + 1] = st[L]
       /\ \A i \in (L - n + 1)..(L - 1) : fnRes.stack[i + 1] = st[i]

\* The fallback ran for n = 5 on a stack of six values whose top differs
\* from the value below it, on a table that held a constant already.
C13_Witness ==
  /\ RotFallbackDone
  /\ fnArg.n = 5
  /\ Len(fnArg.stack) = 6
  /\ fnArg.stack[6] # fnArg.stack[5]
  /\ fnArg.stack[2] # fnArg.stack[6]
  /\ Len(co_consts) = 2
  /\ fnRes.stack # fnArg.stack

(***************************************************************************)
(* Properties of aborted emitter operations.                               *)
(***************************************************************************)
\* C14: failure atomicity of the emitter. When an emitter operation aborts
\* on a failed check, the emitted instruction list, the constant and name
\* tables and the graph-output mapping are as they were before it started.
C14_FailureAtomic ==
  [][(ops' = ops + 1 /\ last'.branch = "raised") =>
       /\ output' = output
       /\ co_consts' = co_consts
       /\ co_names' = co_names
       /\ graph_outputs' = graph_outputs]_vars

(***************************************************************************)
(* Properties of default_strides and squeezer.                             *)
(***************************************************************************)
RECURSIVE ProductOf(_, _, _)
\* sizes[lo] * ... * sizes[hi], 1 when lo > hi.
ProductOf(sizes, lo, hi) ==
  IF lo > hi THEN 1 ELSE sizes[lo] * ProductOf(sizes, lo + 1, hi)

\* C15: row-major strides. For a size list of length n >= 1, default_strides
\* returns a list of length n whose last element is 1 and whose element i is
\* the product of the sizes after i; for the empty list it returns the empty
\* list.
C15_RowMajor ==
  fnRes.done =>
    LET n == Len(fnArg)
    IN /\ Len(fnRes.strides) = n
       /\ n >= 1 => fnRes.strides[n] = 1
       /\ \A i \in 1..n : fnRes.strides[i] = ProductOf(fnArg, i + 1, n)

\* default_strides([2, 3, 4]) returned [12, 4, 1].
C15_Witness ==
  /\ fnRes.done
  /\ fnArg = <<2, 3, 4>>
  /\ fnRes.strides = <<12, 4, 1>>

\* The axes of a shape whose size is not the integer one.
NonUnitAxes(size) == {i \in 1..Len(size) : size[i] # "1"}

\* C16: unit-dimension elision. squeezer returns the sizes different from 1
\* in their order; its reindex maps an index of that squeezed length to a
\* full-rank index with the k-th squeezed coordinate at the k-th non-unit
\* axis and 0 at every unit axis, and rejects an index of any other length.
C16_Squeeze ==
  fnRes.done =>
    LET size == fnArg.size
        index == fnArg.index
        axes == NonUnitAxes(size)
        rank(i) == Cardinality({j \in axes : j <= i})
    IN /\ Len(fnRes.new_size) = Cardinality(axes)
       /\ \A i \in axes : fnRes.new_size[rank(i)] = size[i]
       /\ fnRes.raised <=> (Len(index) # Cardinality(axes))
       /\ ~fnRes.raised =>
            /\ Len(fnRes.new_index) = Len(size)
            /\ \A i \in 1..Len(size) :
                  fnRes.new_index[i] = IF i \in axes THEN index[rank(i)] ELSE "0"

\* squeezer([1, 5, 1, 7]) returned [5, 7] and its reindex took [a, b] to
\* [0, a, 0, b].
C16_Witness ==
  /\ fnRes.done
  /\ fnArg.size = <<"1", "5", "1", "7">>
  /\ fnArg.index = <<"a", "b">>
  /\ fnRes.new_size = <<"5", "7">>
  /\ ~fnRes.raised
  /\ fnRes.new_index = <<"0", "a", "0", "b">>

(***************************************************************************)
(* Properties of the fusable set and of the order of the groups.           *)
(***************************************************************************)
\* The step takes node n out of the blocked index.
ReleaseStep(n) ==
  /\ ValidBoxes(n) # {}
  /\ {i \in DOMAIN boxes' : boxes'[i] = n} = {}

\* C17: fusable release is scoped. A blocked node leaves the blocked index
\* without a barrier only in pop_fusable, and only if its whole unmet set
\* is in the fusable set and its group is the group being drained; opening a
\* kernel empties the fusable set, so every write in it was published by a
\* node run since the last kernel was opened.
C17_FusableScoped ==
  /\ [][\A n \in Bufs :
          (ReleaseStep(n) /\ ~IsBarrierStep) =>
            /\ pg'.stage = "fus"
            /\ cur' = n \/ n \in Range(pg'.list)
            /\ fusable_deps # {}
            /\ unmet[n] \subseteq fusable_deps
            /\ GroupOf(n) = pg'.group]_vars
  /\ [][kernels' # kernels => fusable_deps' = {}]_vars
  /\ [](fusable_deps \subseteq UNION {Writes(n) : n \in ranInKernel})

\* After a node was run before the kernel was opened, a node run in the
\* kernel was released by pop_fusable on the write of another node run in
\* the kernel, which is still pending.
C17_Witness ==
  /\ kernels = 1
  /\ ran \ ranInKernel # {}
  /\ \E n \in ranInKernel : \E d \in graph.reads[n] :
       /\ d.name \in ranInKernel
       /\ d.name \in pending_buffer_names
       /\ d \in fusable_deps

\* Group g has a reduction in the runnable pool.
HasRunableReduction(g) == \E n \in Range(runable_nodes[g]) : IsReduction(n)

\* The step is a yield of iter_runable_groups.
IsIterYield == drv = "top" /\ drv' = "body"

\* C18: reduction preference. Every key iter_runable_groups yields has a
\* node in the runnable pool at the yield; when some group has a runnable
\* reduction the key yielded is a group with a runnable reduction, so a
\* group with only pointwise runnable nodes is yielded only when no group
\* has a runnable reduction.
C18_ReductionFirst ==
  [][IsIterYield =>
       /\ runable_nodes[itKey'] # <<>>
       /\ (\E g \in Groups : HasRunableReduction(g)) => HasRunableReduction(itKey')]_vars

\* The loop yielded a group with a runnable reduction although a group with
\* only pointwise runnable nodes was entered in its dict before.
C18_Witness ==
  /\ drv = "body"
  /\ HasRunableReduction(itKey)
  /\ \E g \in Groups \ {itKey} :
       /\ runable_nodes[g] # <<>>
       /\ ~HasRunableReduction(g)
       /\ \E n \in Range(runable_nodes[g]) : \E m \in Range(runable_nodes[itKey]) :
            IsReduction(m) /\ IndexOf(BufOrder, n) < IndexOf(BufOrder, m)

\* The step is a next() on iter_fixed_point.
IsFixedPointStep == fp' # fp \/ rounds' # rounds

\* C19: fixed-point iteration. iter_fixed_point yields at least once, yields
\* again only if run_count changed during the round before, and stops after
\* the first round in which it did not; it always terminates, after at most
\* (number of retained nodes + 1) rounds.
C19_FixedPoint ==
  /\ [](fp = "done" => rounds >= 1)
  /\ [][(IsFixedPointStep /\ fp = "new") => (fp' = "yielded" /\ rounds' = 1)]_vars
  /\ [][(IsFixedPointStep /\ fp = "yielded") =>
          IF run_count # prior_run_count
          THEN fp' = "yielded" /\ rounds' = rounds + 1 /\ prior_run_count' = run_count
          ELSE fp' = "done" /\ rounds' = rounds]_vars
  /\ [](fp = "yielded" => prior_run_count <= run_count)
  /\ [](phase = "ready" => rounds <= Len(nodes) + 1)
  /\ <>(fp = "done")

\* The loop ended after as many rounds as there are retained nodes plus one:
\* three nodes, each run in a round of its own, and a last round without a
\* run.
C19_Witness ==
  /\ fp = "done"
  /\ Len(nodes) = 3
  /\ run_count = 3
  /\ rounds = 4

\* The computed buffers whose body loads buffer b.
Consumers(b) == {c \in Bufs \ {b} : \E d \in graph.reads[c] : d.name = b}

\* C20: no buffer without a live consumer is kept. After construction a
\* computed buffer that is not a declared output, and every consumer of which
\* was dropped from scheduler.nodes as dead, is itself not in scheduler.nodes,
\* is in graph.removed_buffers and has not been run.
C20_NoLiveConsumer ==
  phase = "ready" =>
    \A b \in Bufs :
      (b \notin graph.outputs /\ Consumers(b) # {} /\ Consumers(b) \cap Retained = {})
        => (b \notin Retained /\ b \in removed_buffers /\ b \notin ran)

\* C21: attribute load. Every LOAD_ATTR instruction emitted has as its
\* numeric argument the index, in the name table, of the name it loads.
C21_AttrIndex ==
  \A i \in DOMAIN output :
    output[i].opname = "LOAD_ATTR" =>
      /\ output[i].argval \in Range(co_names)
      /\ output[i].arg = IntArg(IndexOf(co_names, output[i].argval))

\* The step is a call of setup_globally_cached.
IsSetupStep == ops' = ops + 1 /\ fnArg'.value # Unbound

\* C22: global cache registration never rebinds. A name bound in the frame's
\* globals keeps its binding in every step; registering a bound name with
\* the identical object succeeds and keeps the binding, registering an
\* unbound name binds it, and registering a bound name with a different
\* object fails and leaves the globals, the name table and the instruction
\* list unchanged.
C22_NeverRebinds ==
  /\ [][\A k \in GlobalKeys : f_globals[k] # Unbound => f_globals'[k] = f_globals[k]]_vars
  /\ [][IsSetupStep =>
          LET key == Sanitize(fnArg'.name)
              value == fnArg'.value
          IN IF f_globals[key] = Unbound
             THEN ~fnRes'.raised /\ f_globals'[key] = value
             ELSE IF f_globals[key].id = value.id
             THEN ~fnRes'.raised /\ f_globals' = f_globals
             ELSE /\ fnRes'.raised
                  /\ f_globals' = f_globals
                  /\ co_names' = co_names
                  /\ output' = output]_vars

\* A name registered under one spelling was registered again with the
\* identical object, and then a registration under another spelling of the
\* same sanitized name with an equal but different object has failed.
C22_Witness ==
  /\ fnRes.done /\ fnRes.raised
  /\ fnArg.value # Unbound
  /\ f_globals[Sanitize(fnArg.name)] # Unbound
  /\ f_globals[Sanitize(fnArg.name)].val = fnArg.value.val
  /\ f_globals[Sanitize(fnArg.name)].id # fnArg.value.id
  /\ Sanitize(fnArg.name) \in Range(co_names)
  /\ ops >= 3

\* How often x is listed in seq.
Occurrences(seq, x) == Cardinality({i \in DOMAIN seq : seq[i] = x})
\* d[k] of a counter dict, 0 for a key it does not hold.
CountOf(d, k) == IF DictHas(d, k) THEN DictGet(d, k) ELSE 0

\* The places a retained node can be in.
InBlocked(n) == ValidBoxes(n) # {}
HandedOut(n) == handed[n] >= 1
\* One valid box, listed under the name of each unmet dependency.
BlockedPlace(n) ==
  /\ Cardinality(ValidBoxes(n)) = 1
  /\ \A i \in ValidBoxes(n) : \A d \in unmet[n] : i \in Range(name_to_nodes[d.name])
\* Listed once in the runnable pool, under its own group key.
PoolPlace(n) ==
  /\ Occurrences(runable_nodes[GroupOf(n)], n) = 1
  /\ \A g \in Groups \ {GroupOf(n)} : n \notin Range(runable_nodes[g])
\* Listed once in what a suspended pop_group has still to yield.
FramePlace(n) == Occurrences(pg.list, n) = 1

\* For every group key the two counters sum to the length of its list.
CountersMatch ==
  \A g \in Groups :
    CountOf(runable_reduction_groups, g) + CountOf(runable_pointwise_groups, g)
      = Len(runable_nodes[g])

\* C23 as stated: node placement invariant. After construction every retained
\* node is in exactly one of three places (one valid box of the blocked
\* index listed under each unmet name, once in the runnable pool under its
\* group, or handed out), and the counters of every group sum to the number
\* of nodes listed under it.
C23_ThreePlaces ==
  phase = "ready" =>
    /\ \A n \in Retained :
         \/ InBlocked(n) /\ BlockedPlace(n) /\ ~InPool(n) /\ ~HandedOut(n)
         \/ InPool(n) /\ PoolPlace(n) /\ ~InBlocked(n) /\ ~HandedOut(n)
         \/ HandedOut(n) /\ ~InBlocked(n) /\ ~InPool(n)
    /\ CountersMatch

\* C23 amended: node placement invariant with the frame of a suspended
\* pop_group as a fourth place. After construction every retained node is in
\* exactly one of: one valid box of the blocked index listed under each
\* unmet name; once in the runnable pool under its group; once in the list a
\* suspended pop_group generator has taken and not yet yielded; handed out.
\* When no pop_group generator is suspended the places are the three of the
\* claim. The counters of every group sum to the number of nodes listed
\* under it.
C23_Placement ==
  phase = "ready" =>
    /\ \A n \in Retained :
         \/ InBlocked(n) /\ BlockedPlace(n) /\ ~InPool(n) /\ ~InFrame(n) /\ ~HandedOut(n)
         \/ InPool(n) /\ PoolPlace(n) /\ ~InBlocked(n) /\ ~InFrame(n) /\ ~HandedOut(n)
         \/ InFrame(n) /\ FramePlace(n) /\ ~InBlocked(n) /\ ~InPool(n) /\ ~HandedOut(n)
         \/ HandedOut(n) /\ ~InBlocked(n) /\ ~InPool(n) /\ ~InFrame(n)
    /\ (pg = NoFrame => \A n \in Retained : ~InFrame(n))
    /\ CountersMatch

\* The four places at once: a node handed out by a suspended pop_group,
\* another still in its frame, and a barrier since then has put a third in
\* the runnable pool, where the counters count it.
C23_Witness ==
  /\ phase = "ready"
  /\ pg # NoFrame
  /\ \E n, m, k \in Retained :
       /\ HandedOut(n)
       /\ InFrame(m)
       /\ InPool(k) /\ \E d \in graph.reads[k] : d.name \in Bufs
  /\ \E g \in Groups : DictHas(runable_pointwise_groups, g)
====
